---- MODULE Spec2Model ----
(***************************************************************************)
(* Model of the trading dashboard's command/event channel and of the       *)
(* WebSocket ingestion worker (src/src/workers/websocket_handler.rs), the  *)
(* REST worker's command loop (src/src/workers/api_handler.rs) and the     *)
(* consumer's command sends (src/src/state.rs, src/src/app.rs).            *)
(*                                                                         *)
(* Three tasks run concurrently on the tokio runtime:                      *)
(*   - ApiHandler::run            (api_pc)                                 *)
(*   - WebSocketHandler::run      (ws_pc), the connect/reconnect loop      *)
(*   - command_processor          (cmd_pc), spawned by WebSocketHandler::run*)
(* ApiHandler::run and command_processor receive from clones of the SAME   *)
(* crossbeam receiver: a message is delivered to exactly one of them.      *)
(* A step of a task is the code between two of its suspension points.      *)
(*                                                                         *)
(* Further specifications over the same variables:                         *)
(*   - SpecStore, SpecOrders: the consumer's store, AppState::handle_event,*)
(*     applying the events of the Event channel (src/src/state.rs)         *)
(*   - SpecWire: binary frames from the receive loop through the Event     *)
(*     channel to the store                                                *)
(*   - SpecDelay: the delay and jitter of handle_reconnection              *)
(*   - SpecToken: the access token given by configuration or by            *)
(*     set_access_token                                                    *)
(*   - SpecStream, SpecDecode: the messages of an established connection   *)
(*     and the byte layout process_tick_data decodes                       *)
(*   - SpecExit: the connection task while the application exits and the   *)
(*     receiver of the Event channel is dropped                            *)
(*   - SpecApply, SpecLog: handle_event with the log it writes, add_log    *)
(*   - SpecPnl: calculate_total_pnl over the position store                *)
(*   - SpecDrain: TradingApp::update and process_events draining the       *)
(*     Event channel                                                       *)
(*   - SpecCommands: both command loops over every kind of command         *)
(*   - SpecLock: handle_subscribe and handle_unsubscribe step by step      *)
(*     under the write guard of the Subscription Set                       *)
(***************************************************************************)
EXTENDS Integers, Sequences, FiniteSets, TLC

\* ---------------------------------------------------------------- bounds
MaxToken == 1            \* instrument tokens are 1..MaxToken
MaxCommands == 1         \* commands the consumer sends before on_exit
MaxConnects == 3         \* calls of connect_and_process in one run
MaxFrames == 1           \* inbound frames delivered by the server in one run
max_reconnect_attempts == 1   \* config.app.max_reconnect_attempts
StoreMaxToken == 2       \* instruments of the store are 1..StoreMaxToken
StoreMaxOrder == 2       \* order ids of the store are 1..StoreMaxOrder
MaxTicks == 2            \* TickUpdate events handled in one run
MaxWire == 3             \* binary frames read from the wire in one run
MaxAttempt == 7          \* largest reconnect_attempts a delay is computed for

VARIABLES
    app_running,        \* TradingApp is alive (on_exit not yet called)
    command_queue,      \* the unbounded crossbeam Command channel
    sent,               \* number of commands sent so far
    reconnect_sent,     \* history: a ReconnectWebSocket command has been sent
    ws_events,          \* the AppEvents run has handed to EventSender::send, in
                        \* order: all of them delivered while the receiver lives
    cmd_events,         \* the AppEvents command_processor has handed to send
    api_events,         \* the AppEvents ApiHandler has handed to send
    access_token,       \* WebSocketHandler.access_token : Option<String>
    subscribed_tokens,  \* WebSocketHandler.subscribed_tokens : Vec<u32>
    is_connected,       \* WebSocketHandler.is_connected
    reconnect_attempts, \* WebSocketHandler.reconnect_attempts (run's copy)
    ws_pc,              \* position of WebSocketHandler::run
    ws_sink,            \* messages sent on the current connection (ws_sender)
    cmd_pc,             \* position of command_processor
    cmd_cur,            \* command being handled by command_processor
    api_pc,             \* position of ApiHandler::run
    api_cur,            \* command being handled by ApiHandler::run
    connects,           \* number of connect_and_process calls so far
    frames,             \* number of inbound frames delivered so far
    event_queue,        \* the unbounded crossbeam AppEvent channel
    positions,          \* AppState.positions : DashMap<u32, Position>
    orders,             \* AppState.orders : DashMap<String, Order>
    tick_data,          \* AppState.tick_data : DashMap<u32, TickData>
    ticks_processed,    \* AppState.metrics.ticks_processed
    wire,               \* history: number of tick frames read from the wire
    applied_frame,      \* history: per instrument, the last frame applied
    base_delay,         \* config.app.websocket_reconnect_delay_ms
    delay,              \* handle_reconnection's delay
    total_delay,        \* handle_reconnection's total_delay (delay + jitter)
    msg,                \* the message ws_receiver.next() has just yielded
    inbox,              \* history: the messages yielded so far, in order
    logs,               \* AppState.logs : Vec<LogEntry>
    event_receiver,     \* AppState.event_receiver: "alive" or "dropped"
    pnl_data,           \* the PnlData calculate_total_pnl returned last
    ui_pc,              \* position of TradingApp::update
    applied,            \* history: the events handle_event has applied, in order
    produced,           \* history: the events sent on the Event channel, in order
    requests,           \* history: the REST calls ApiHandler's client has made
    write_guard         \* the write guard held on subscribed_tokens, if any

vars == << app_running, command_queue, sent, reconnect_sent, ws_events,
           cmd_events, api_events, access_token, subscribed_tokens, is_connected,
           reconnect_attempts, ws_pc, ws_sink, cmd_pc, cmd_cur, api_pc, api_cur,
           connects, frames, event_queue, positions, orders, tick_data,
           ticks_processed, wire, applied_frame, base_delay, delay,
           total_delay, msg, inbox, logs,
           event_receiver, pnl_data, ui_pc, applied, produced, requests,
           write_guard >>

\* the variables of each task, for the UNCHANGED clauses
consumer_vars == << app_running, sent, reconnect_sent >>

api_vars == << api_pc, api_cur, api_events, requests >>

cmd_vars == << cmd_pc, cmd_cur, cmd_events >>

ws_vars == << reconnect_attempts, ws_pc, ws_sink, ws_events, is_connected,
              connects, frames >>

\* the consumer's store and the Event channel it drains
store_vars == << event_queue, positions, orders, tick_data, ticks_processed,
                 wire, applied_frame >>

\* the reconnect delay of handle_reconnection
backoff_vars == << base_delay, delay, total_delay >>

\* the message in the hands of the receive loop
frame_vars == << msg, inbox >>

\* the consumer's log
log_vars == << logs >>

\* the consumer's position in update and the histories of the Event channel
drain_vars == << ui_pc, applied, produced >>


\* ------------------------------------------------------------ data types
Tokens == 1..MaxToken

\* the instrument_tokens vectors the consumer sends: one token (the
\* subscribe button of a position row) or the fixed list of all tokens (the
\* overview's subscribe button)
TokenLists == { << t >> : t \in Tokens } \cup { [i \in 1..MaxToken |-> i] }

Range(s) == { s[i] : i \in 1..Len(s) }

Contains(s, x) == \E i \in 1..Len(s) : s[i] = x

\* Option<String>
None == [some |-> FALSE]

Some(token) == [some |-> TRUE, token |-> token]

\* config.zerodha.access_token: empty, the placeholder of config.toml, a token
ConfigTokens == { "", "your_access_token_here", "a1b2c3d4e5f6g7h8i9j0k1l2m3n4o5p6" }

\* str::len of the tokens above, in bytes
TokenLength(token) ==
    CASE token = "" -> 0
      [] token = "your_access_token_here" -> 22
      [] OTHER -> 32

\* WebSocketHandler::new: the placeholder and the empty string are no token
NewAccessToken(config_token) ==
    IF config_token # "your_access_token_here" /\ config_token # ""
    THEN Some(config_token)
    ELSE None

NoCmd == [tag |-> "None"]

Shutdown == [tag |-> "Shutdown"]

ReconnectWebSocket == [tag |-> "ReconnectWebSocket"]

FetchPositions == [tag |-> "FetchPositions"]

FetchOrders == [tag |-> "FetchOrders"]

PlaceOrder == [tag |-> "PlaceOrder"]

ModifyOrder(order_id) == [tag |-> "ModifyOrder", order_id |-> order_id]

CancelOrder(order_id) == [tag |-> "CancelOrder", order_id |-> order_id]

SubscribeToTicks(l) == [tag |-> "SubscribeToTicks", instrument_tokens |-> l]

UnsubscribeFromTicks(l) == [tag |-> "UnsubscribeFromTicks", instrument_tokens |-> l]

\* the commands the consumer sends while running (Shutdown is sent by on_exit)
Command == { FetchPositions, ReconnectWebSocket }
             \cup { SubscribeToTicks(l) : l \in TokenLists }
             \cup { UnsubscribeFromTicks(l) : l \in TokenLists }

Notification(module, message) ==
    [type |-> "Notification", module |-> module, message |-> message]

Error(module, error) == [type |-> "Error", module |-> module, error |-> error]

WebSocketConnected == [type |-> "WebSocketConnected"]

WebSocketDisconnected == [type |-> "WebSocketDisconnected"]

WebSocketReconnecting(n) == [type |-> "WebSocketReconnecting", attempt |-> n]

TickUpdate(t) == [type |-> "TickUpdate", instrument_token |-> t]

PositionsUpdated == [type |-> "PositionsUpdated"]

\* --------------------------------------------------------- store data
StoreTokens == 1..StoreMaxToken

OrderIds == 1..StoreMaxOrder

\* a key that the map does not hold
Absent == [absent |-> TRUE]

Keys(map) == { k \in DOMAIN map : map[k] # Absent }

\* Position as the remote system reports it: the fields the store computes
\* with (prices in paise-like integer units) and the pnl values it carries.
\* The first is a holding whose carried pnl is not the one of the formula,
\* the second a closed position (quantity 0) with a carried pnl
FetchedPositions ==
    { [instrument_token |-> t, quantity |-> 10, average_price |-> 100,
       last_price |-> 100, close_price |-> 95, pnl |-> 7, unrealized_pnl |-> 50,
       realized_pnl |-> 3]
        : t \in StoreTokens }
    \cup
    { [instrument_token |-> t, quantity |-> 0, average_price |-> 100,
       last_price |-> 100, close_price |-> 95, pnl |-> 7, unrealized_pnl |-> 50,
       realized_pnl |-> -4]
        : t \in StoreTokens }

\* Order as the remote system reports it
FetchedOrders ==
    { [order_id |-> id, status |-> st] :
        id \in OrderIds, st \in { "Open", "Complete" } }

\* Vec<T> of at most two elements, repeated keys included
ListsOf(S) == { << >> } \cup { << x >> : x \in S }
                 \cup { << x, y >> : x \in S, y \in S }

\* DateTime<Utc>: whole seconds and the nanoseconds within the second
Timestamps == { [secs |-> 1, nsecs |-> 0], [secs |-> 0, nsecs |-> 5] }

\* DateTime::timestamp_nanos
TimestampNanos(timestamp) == timestamp.secs * 1000000000 + timestamp.nsecs

PositionsUpdatedWith(list) == [type |-> "PositionsUpdated", positions |-> list]

OrdersUpdatedWith(list) == [type |-> "OrdersUpdated", orders |-> list]

\* frame: history, the index of the wire frame the tick was parsed from
TickUpdateWith(instrument_token, last_price, volume, timestamp, frame) ==
    [type |-> "TickUpdate", instrument_token |-> instrument_token,
     last_price |-> last_price, volume |-> volume, timestamp |-> timestamp,
     frame |-> frame]

OrderPlaced(order_id) == [type |-> "OrderPlaced", order_id |-> order_id]

\* no message in the hands of the receive loop
NoMsg == [kind |-> "none"]

\* nobody holds the write lock of subscribed_tokens
NoGuard == [held |-> FALSE]

\* calculate_total_pnl has not been called yet
NoPnl == [none |-> TRUE]

\* LogEntry (its timestamp, Utc::now(), is left out)
LogEntry(level, message, module) ==
    [level |-> level, message |-> message, module |-> module]

\* what a TickUpdate carries besides its instrument: price and volume of
\* the frame and Utc::now() when the frame was processed (the wall clock may
\* step back: the second has the older timestamp)
TickPayloads == { [last_price |-> 105, volume |-> 1, timestamp |-> [secs |-> 1, nsecs |-> 0]],
                  [last_price |-> 110, volume |-> 2, timestamp |-> [secs |-> 0, nsecs |-> 5]] }

\* ------------------------------------------------------------------ Init
\* AppState::new: empty maps and default metrics
InitMaps ==
    /\ positions = [t \in StoreTokens |-> Absent]
    /\ orders = [id \in OrderIds |-> Absent]
    /\ tick_data = [t \in StoreTokens |-> Absent]
    /\ ticks_processed = 0
    /\ wire = 0
    /\ applied_frame = [t \in StoreTokens |-> 0]

\* AppState::new: empty maps, default metrics, an empty Event channel
InitStore ==
    /\ event_queue = << >>
    /\ InitMaps

\* the receive loop holds no message
InitFrames ==
    /\ msg = NoMsg
    /\ inbox = << >>

\* update has not been called and nothing was sent on the Event channel
InitDrain ==
    /\ ui_pc = "render"
    /\ applied = << >>
    /\ produced = << >>

\* TradingApp::new has logged its one line; no PnlData has been computed
InitLogs ==
    /\ logs = << LogEntry("Info", "Trading application initialized", Some("app")) >>
    /\ pnl_data = NoPnl

\* no delay has been computed yet
InitBackoff ==
    /\ base_delay = 1000
    /\ delay = 0
    /\ total_delay = 0

Init ==
    /\ app_running = TRUE
    /\ command_queue = << >>
    /\ sent = 0
    /\ reconnect_sent = FALSE
    /\ ws_events = << >>
    /\ cmd_events = << >>
    /\ api_events = << >>
    /\ access_token \in { NewAccessToken(t) : t \in ConfigTokens }
    /\ subscribed_tokens = << >>
    /\ is_connected = FALSE
    /\ reconnect_attempts = 0
    /\ ws_pc = "start"
    /\ ws_sink = << >>
    /\ cmd_pc = "unspawned"
    /\ cmd_cur = NoCmd
    /\ api_pc = "start"
    /\ api_cur = NoCmd
    /\ connects = 0
    /\ frames = 0
    /\ InitStore
    /\ InitFrames
    /\ InitDrain
    /\ requests = << >>
    /\ write_guard = NoGuard
    /\ InitLogs
    /\ event_receiver = "alive"
    /\ InitBackoff

\* --------------------------------------------------------------- consumer
\* AppState::send_command: non-blocking send on the unbounded Command channel
SendCommand(c) ==
    /\ app_running
    /\ sent < MaxCommands
    /\ sent' = sent + 1
    /\ reconnect_sent' = (reconnect_sent \/ c = ReconnectWebSocket)
    /\ command_queue' = Append(command_queue, c)
    /\ UNCHANGED << app_running, access_token, store_vars, backoff_vars, frame_vars, log_vars, drain_vars, write_guard, event_receiver, pnl_data, subscribed_tokens, api_vars,
                    cmd_vars, ws_vars >>

\* TradingApp::on_exit: one Shutdown command, the last command of the consumer
OnExit ==
    /\ app_running
    /\ app_running' = FALSE
    /\ command_queue' = Append(command_queue, Shutdown)
    /\ UNCHANGED << sent, reconnect_sent, access_token, store_vars, backoff_vars, frame_vars, log_vars, drain_vars, write_guard, event_receiver, pnl_data, subscribed_tokens,
                    api_vars, cmd_vars, ws_vars >>

\* ------------------------------------------------------------- ApiHandler
\* ApiHandler::run up to its first recv()
ApiStart ==
    /\ api_pc = "start"
    /\ api_events' = Append(api_events,
                       Notification("api_handler", "API handler started"))
    /\ api_pc' = "recv"
    /\ UNCHANGED << api_cur, requests, command_queue, consumer_vars, access_token, store_vars, backoff_vars, frame_vars, log_vars, drain_vars, write_guard, event_receiver, pnl_data,
                    subscribed_tokens, cmd_vars, ws_vars >>

\* ApiHandler::run taking the newest command of the channel
ApiRecv_Newest ==
    /\ api_pc = "recv"
    /\ command_queue # << >>
    /\ LET command == command_queue[Len(command_queue)] IN
        /\ command_queue' = SubSeq(command_queue, 1, Len(command_queue) - 1)
        /\ IF command = Shutdown
           THEN /\ api_pc' = "stopped"
                /\ api_cur' = NoCmd
                /\ api_events' = Append(api_events,
                                   Notification("api_handler", "API handler stopped"))
           ELSE /\ api_pc' = "handle"
                /\ api_cur' = command
                /\ api_events' = api_events
    /\ UNCHANGED << requests, consumer_vars, access_token, store_vars, backoff_vars,
                    frame_vars, log_vars, drain_vars, write_guard, event_receiver,
                    pnl_data, subscribed_tokens, cmd_vars, ws_vars >>

\* command_receiver.recv() returns the head of the shared queue; Shutdown
\* breaks the loop, any other command goes to handle_command
ApiRecv ==
    /\ api_pc = "recv"
    /\ command_queue # << >>
    /\ LET command == Head(command_queue) IN
        /\ command_queue' = Tail(command_queue)
        /\ IF command = Shutdown
           THEN /\ api_pc' = "stopped"
                /\ api_cur' = NoCmd
                /\ api_events' = Append(api_events,
                                   Notification("api_handler", "API handler stopped"))
           ELSE /\ api_pc' = "handle"
                /\ api_cur' = command
                /\ api_events' = api_events
    /\ UNCHANGED << requests, consumer_vars, access_token, store_vars, backoff_vars, frame_vars, log_vars, drain_vars, write_guard, event_receiver, pnl_data, subscribed_tokens, cmd_vars,
                    ws_vars >>

\* the events of the Request Worker that carry no payload here
OrdersUpdated == [type |-> "OrdersUpdated"]

InstrumentsUpdated == [type |-> "InstrumentsUpdated"]

OrderModified(order_id) == [type |-> "OrderModified", order_id |-> order_id]

OrderCancelled(order_id) == [type |-> "OrderCancelled", order_id |-> order_id]

\* run's report of an Err that handle_command returned
CommandError == Error("api_handler", "Command handling error")

\* handle_fetch_positions, handle_fetch_orders, handle_fetch_instruments:
\* one REST call; its result is sent with `?` and then notified, its failure
\* is reported with send_error. The send fails only when the receiver is
\* gone, and run reports the Err it gets then
Fetch(call, updated, fetched, failed, ok) ==
    [calls |-> << call >>,
     events |-> IF ok
                THEN << updated,
                        IF event_receiver = "alive"
                        THEN Notification("api_handler", fetched)
                        ELSE CommandError >>
                ELSE << Error("api_handler", failed) >>]

\* handle_command that fetches the positions for every command it is given
HandleCommand_FetchAlways(command, ok, refreshed) ==
    Fetch("get_positions", PositionsUpdated, "Positions fetched successfully",
          "Failed to fetch positions", ok)

\* ApiHandler::handle_command, and run's send_error when it returns Err: the
\* REST calls made and the events sent for one command, given the outcome
\* of its REST call (ok) and of the order refresh that may follow it
\* (refreshed). The WebSocket commands are ignored here
HandleCommand(command, ok, refreshed) ==
    LET alive == event_receiver = "alive"
        refresh == Fetch("get_orders", OrdersUpdated, "Orders fetched successfully",
                         "Failed to fetch orders", refreshed)
        order(call, starting, sent_event, done, failed) ==
            IF ~ok
            THEN [calls |-> << call >>,
                  events |-> << Notification("api_handler", starting),
                                Error("api_handler", failed) >>]
            ELSE IF ~alive
            THEN [calls |-> << call >>,
                  events |-> << Notification("api_handler", starting), sent_event,
                                CommandError >>]
            ELSE [calls |-> << call >> \o refresh.calls,
                  events |-> << Notification("api_handler", starting), sent_event,
                                Notification("api_handler", done) >>
                             \o refresh.events]
    IN  CASE command.tag = "FetchPositions" ->
                Fetch("get_positions", PositionsUpdated,
                      "Positions fetched successfully", "Failed to fetch positions", ok)
          [] command.tag = "FetchOrders" ->
                Fetch("get_orders", OrdersUpdated, "Orders fetched successfully",
                      "Failed to fetch orders", ok)
          [] command.tag = "FetchInstruments" ->
                Fetch("get_instruments", InstrumentsUpdated,
                      "Instruments fetched for exchange",
                      "Failed to fetch instruments", ok)
          [] command.tag = "FetchUserProfile" ->
                [calls |-> << >>,
                 events |-> << Notification("api_handler",
                                  "User profile not needed for personal trading") >>]
          [] command.tag = "PlaceOrder" ->
                order("place_order", "Placing order", OrderPlaced(1),
                      "Order placed successfully", "Failed to place order")
          [] command.tag = "CancelOrder" ->
                order("cancel_order", "Cancelling order",
                      OrderCancelled(command.order_id), "Order cancelled",
                      "Failed to cancel order")
          [] command.tag = "ModifyOrder" ->
                IF ~alive
                THEN [calls |-> << >>,
                      events |-> << Notification("api_handler", "Modifying order"),
                                    OrderModified(command.order_id), CommandError >>]
                ELSE [calls |-> refresh.calls,
                      events |-> << Notification("api_handler", "Modifying order"),
                                    OrderModified(command.order_id),
                                    Notification("api_handler", "Order modified") >>
                                 \o refresh.events]
          [] OTHER -> [calls |-> << >>, events |-> << >>]

\* the command in hand goes through handle_command, whose REST calls succeed
\* or fail, and the loop is back at recv()
ApiHandle ==
    /\ api_pc = "handle"
    /\ \E ok, refreshed \in BOOLEAN :
          LET done == HandleCommand(api_cur, ok, refreshed)
          IN  /\ api_events' = api_events \o done.events
              /\ requests' = requests \o done.calls
    /\ api_pc' = "recv"
    /\ api_cur' = NoCmd
    /\ UNCHANGED << command_queue, consumer_vars, access_token, store_vars, backoff_vars, frame_vars, log_vars, drain_vars, write_guard, event_receiver, pnl_data,
                    subscribed_tokens, cmd_vars, ws_vars >>

\* ------------------------------------------- WebSocketHandler: command task
\* handle_subscribe without its contains() test
RECURSIVE PushAll(_, _)
PushAll(tokens, instrument_tokens) ==
    IF instrument_tokens = << >> THEN tokens
    ELSE PushAll(Append(tokens, Head(instrument_tokens)), Tail(instrument_tokens))

\* handle_subscribe's loop: push every token that the vector does not contain yet
RECURSIVE PushNew(_, _)
PushNew(tokens, instrument_tokens) ==
    IF instrument_tokens = << >> THEN tokens
    ELSE LET token == Head(instrument_tokens) IN
         PushNew(IF Contains(tokens, token) THEN tokens ELSE Append(tokens, token),
                 Tail(instrument_tokens))

\* handle_unsubscribe: tokens.retain(|token| !instrument_tokens.contains(token))
Retain(tokens, instrument_tokens) ==
    SelectSeq(tokens, LAMBDA token : ~Contains(instrument_tokens, token))

\* command_receiver.recv() in command_processor: Shutdown breaks the loop
CmdRecv ==
    /\ cmd_pc = "recv"
    /\ command_queue # << >>
    /\ LET command == Head(command_queue) IN
        /\ command_queue' = Tail(command_queue)
        /\ IF command = Shutdown
           THEN cmd_pc' = "stopped" /\ cmd_cur' = NoCmd
           ELSE cmd_pc' = "handle" /\ cmd_cur' = command
    /\ UNCHANGED << cmd_events, consumer_vars, access_token, store_vars, backoff_vars, frame_vars, log_vars, drain_vars, write_guard, event_receiver, pnl_data, subscribed_tokens,
                    api_vars, ws_vars >>

\* command_processor touching the Subscription Set only while connected
CmdHandle_ConnectedOnly ==
    /\ cmd_pc = "handle"
    /\ subscribed_tokens' =
          IF ~is_connected THEN subscribed_tokens
          ELSE CASE cmd_cur.tag = "SubscribeToTicks" ->
                      PushNew(subscribed_tokens, cmd_cur.instrument_tokens)
                 [] cmd_cur.tag = "UnsubscribeFromTicks" ->
                      Retain(subscribed_tokens, cmd_cur.instrument_tokens)
                 [] OTHER -> subscribed_tokens
    /\ cmd_events' =
          CASE cmd_cur.tag = "SubscribeToTicks" ->
                  Append(cmd_events,
                         Notification("websocket_handler", "Subscribed to tokens"))
            [] cmd_cur.tag = "UnsubscribeFromTicks" ->
                  Append(cmd_events,
                         Notification("websocket_handler", "Unsubscribed from tokens"))
            [] cmd_cur.tag = "ReconnectWebSocket" ->
                  Append(cmd_events,
                         Notification("websocket_handler",
                                      "Manual reconnection requested"))
            [] OTHER -> cmd_events
    /\ cmd_pc' = "recv"
    /\ cmd_cur' = NoCmd
    /\ UNCHANGED << command_queue, consumer_vars, access_token, store_vars, backoff_vars, frame_vars, log_vars, drain_vars, write_guard, event_receiver, pnl_data, api_vars,
                    ws_vars >>

\* the match arm of command_processor for the received command
CmdHandle ==
    /\ cmd_pc = "handle"
    /\ CASE cmd_cur.tag = "SubscribeToTicks" ->
              /\ subscribed_tokens' = PushNew(subscribed_tokens, cmd_cur.instrument_tokens)
              /\ cmd_events' = Append(cmd_events,
                                 Notification("websocket_handler", "Subscribed to tokens"))
         [] cmd_cur.tag = "UnsubscribeFromTicks" ->
              /\ subscribed_tokens' = Retain(subscribed_tokens, cmd_cur.instrument_tokens)
              /\ cmd_events' = Append(cmd_events,
                                 Notification("websocket_handler",
                                              "Unsubscribed from tokens"))
         [] cmd_cur.tag = "ReconnectWebSocket" ->
              /\ subscribed_tokens' = subscribed_tokens
              /\ cmd_events' = Append(cmd_events,
                                 Notification("websocket_handler",
                                              "Manual reconnection requested"))
         [] OTHER ->
              /\ subscribed_tokens' = subscribed_tokens
              /\ cmd_events' = cmd_events
    /\ cmd_pc' = "recv"
    /\ cmd_cur' = NoCmd
    /\ UNCHANGED << command_queue, consumer_vars, access_token, store_vars, backoff_vars, frame_vars, log_vars, drain_vars, write_guard, event_receiver, pnl_data, api_vars,
                    ws_vars >>

\* ------------------------------------- WebSocketHandler: connection task
\* WebSocketHandler::run up to the top of its loop: the start notification
\* and the spawn of command_processor
WsStart ==
    /\ ws_pc = "start"
    /\ ws_events' = Append(ws_events,
                      Notification("websocket_handler", "WebSocket handler started"))
    /\ cmd_pc' = "recv"
    /\ ws_pc' = "loop"
    /\ UNCHANGED << command_queue, consumer_vars, access_token, store_vars, backoff_vars, frame_vars, log_vars, drain_vars, write_guard, event_receiver, pnl_data,
                    subscribed_tokens, api_vars, cmd_cur, cmd_events,
                    reconnect_attempts, ws_sink, is_connected, connects, frames >>

\* top of run's loop: with a token connect_and_process is entered (it
\* prints &access_token[..8], which panics for a token shorter than 8
\* bytes, sends its "Connecting" notification and starts the REST
\* pre-check), without one the task sleeps for 100 ms
WsLoop ==
    /\ ws_pc = "loop"
    /\ IF access_token.some
       THEN /\ connects < MaxConnects
            /\ connects' = connects + 1
            /\ IF TokenLength(access_token.token) < 8
               THEN /\ ws_events' = ws_events
                    /\ ws_pc' = "panicked"
               ELSE /\ ws_events' = Append(ws_events,
                                      Notification("websocket_handler",
                                                   "Connecting to Zerodha WebSocket..."))
                    /\ ws_pc' = "precheck"
       ELSE /\ connects' = connects
            /\ ws_events' = ws_events
            /\ ws_pc' = "sleep"
    /\ UNCHANGED << command_queue, consumer_vars, access_token, store_vars, backoff_vars, frame_vars, log_vars, drain_vars, write_guard, event_receiver, pnl_data,
                    subscribed_tokens, api_vars, cmd_vars, reconnect_attempts,
                    ws_sink, is_connected, frames >>

\* the 100 ms sleep of the token poll is over
WsPollWake ==
    /\ ws_pc = "sleep"
    /\ ws_pc' = "loop"
    /\ UNCHANGED << command_queue, consumer_vars, access_token, store_vars, backoff_vars, frame_vars, log_vars, drain_vars, write_guard, event_receiver, pnl_data,
                    subscribed_tokens, api_vars, cmd_vars, reconnect_attempts,
                    ws_sink, ws_events, is_connected, connects, frames >>

\* handle_reconnection that reports the attempt before it counts it
HandleReconnection_OldValue(attempts, ev) ==
    /\ reconnect_attempts' = attempts + 1
    /\ IF attempts + 1 > max_reconnect_attempts
       THEN /\ ws_events' = Append(ev, Error("websocket_handler",
                                             "Max reconnection attempts reached"))
            /\ ws_pc' = "loop"
       ELSE /\ ws_events' = ev \o << WebSocketReconnecting(attempts),
                                     Notification("websocket_handler",
                                                  "Reconnecting in") >>
            /\ ws_pc' = "backoff"

\* handle_reconnection without the sleep: given the counter and the event
\* log so far, count the attempt and report either the exhausted budget or
\* the new attempt
HandleReconnection(attempts, ev) ==
    /\ reconnect_attempts' = attempts + 1
    /\ IF attempts + 1 > max_reconnect_attempts
       THEN /\ ws_events' = Append(ev, Error("websocket_handler",
                                             "Max reconnection attempts reached"))
            /\ ws_pc' = "loop"
       ELSE /\ ws_events' = ev \o << WebSocketReconnecting(attempts + 1),
                                     Notification("websocket_handler",
                                                  "Reconnecting in") >>
            /\ ws_pc' = "backoff"

\* connect_and_process returned Err to run: the Error event, then
\* handle_reconnection
ConnectionError ==
    HandleReconnection(reconnect_attempts, Append(ws_events,
        Error("websocket_handler", "WebSocket connection error")))

\* the REST profile pre-check answers: HTTP 200 continues with the
\* handshake, anything else is an Err
WsPrecheck ==
    /\ ws_pc = "precheck"
    /\ \E ok \in BOOLEAN :
          IF ok
          THEN /\ ws_pc' = "handshake"
               /\ UNCHANGED << ws_events, reconnect_attempts >>
          ELSE ConnectionError
    /\ UNCHANGED << command_queue, consumer_vars, access_token, store_vars, backoff_vars, frame_vars, log_vars, drain_vars, write_guard, event_receiver, pnl_data,
                    subscribed_tokens, api_vars, cmd_vars, ws_sink,
                    is_connected, connects, frames >>

\* connect_async under its 30 s timeout: connected, failed or timed out
WsHandshake ==
    /\ ws_pc = "handshake"
    /\ \E ok \in BOOLEAN :
          IF ok
          THEN /\ ws_pc' = "connected"
               /\ UNCHANGED << ws_events, reconnect_attempts >>
          ELSE ConnectionError
    /\ UNCHANGED << command_queue, consumer_vars, access_token, store_vars, backoff_vars, frame_vars, log_vars, drain_vars, write_guard, event_receiver, pnl_data,
                    subscribed_tokens, api_vars, cmd_vars, ws_sink,
                    is_connected, connects, frames >>

\* a successful handshake that keeps the attempt counter
WsConnected_NoReset ==
    /\ ws_pc = "connected"
    /\ is_connected' = TRUE
    /\ ws_sink' = << >>
    /\ IF event_receiver = "alive"
       THEN /\ reconnect_attempts' = reconnect_attempts
            /\ ws_events' = ws_events \o << WebSocketConnected,
                                Notification("websocket_handler",
                                             "WebSocket connected successfully") >>
            /\ ws_pc' = "subscribe"
       ELSE HandleReconnection(reconnect_attempts,
                ws_events \o << WebSocketConnected,
                    Error("websocket_handler", "WebSocket connection error") >>)
    /\ UNCHANGED << command_queue, consumer_vars, access_token, store_vars, backoff_vars, frame_vars, log_vars, drain_vars, write_guard, event_receiver, pnl_data,
                    subscribed_tokens, api_vars, cmd_vars, connects, frames >>

\* "Connection successful": the flag, the counter reset, the Connected event
\* and its notification; the new stream has nothing sent on it yet. The
\* event is sent with `?`: when the receiver is gone the send fails and
\* connect_and_process returns its Err to run, the counter already reset
WsConnected ==
    /\ ws_pc = "connected"
    /\ is_connected' = TRUE
    /\ ws_sink' = << >>
    /\ IF event_receiver = "alive"
       THEN /\ reconnect_attempts' = 0
            /\ ws_events' = ws_events \o << WebSocketConnected,
                                Notification("websocket_handler",
                                             "WebSocket connected successfully") >>
            /\ ws_pc' = "subscribe"
       ELSE HandleReconnection(0,
                ws_events \o << WebSocketConnected,
                    Error("websocket_handler", "WebSocket connection error") >>)
    /\ UNCHANGED << command_queue, consumer_vars, access_token, store_vars, backoff_vars, frame_vars, log_vars, drain_vars, write_guard, event_receiver, pnl_data,
                    subscribed_tokens, api_vars, cmd_vars, connects, frames >>

\* a read of the Subscription Set that waits for nobody
TokensReadable_Always == TRUE

\* self.subscribed_tokens.read().await: the tokio RwLock gives the read
\* guard only while no task holds the write guard
TokensReadable == write_guard = NoGuard

\* send_subscription: the control message {"a":"subscribe","v":tokens}
SubscriptionMsg(tokens) == [a |-> "subscribe", v |-> tokens]

\* re-subscription on the first connection only
WsSubscribe_FirstConnectOnly ==
    /\ ws_pc = "subscribe"
    /\ TokensReadable
    /\ LET tokens == subscribed_tokens IN
       IF tokens = << >> \/ connects > 1
       THEN /\ ws_pc' = "streaming"
            /\ UNCHANGED << ws_events, reconnect_attempts, ws_sink >>
       ELSE \E ok \in BOOLEAN :
              IF ok
              THEN /\ ws_sink' = Append(ws_sink, SubscriptionMsg(tokens))
                   /\ ws_events' = Append(ws_events,
                                     Notification("websocket_handler",
                                                  "Sent subscription"))
                   /\ ws_pc' = "streaming"
                   /\ UNCHANGED reconnect_attempts
              ELSE /\ ConnectionError
                   /\ UNCHANGED ws_sink
    /\ UNCHANGED << command_queue, consumer_vars, access_token, store_vars, backoff_vars, frame_vars, log_vars, drain_vars, write_guard, event_receiver, pnl_data,
                    subscribed_tokens, api_vars, cmd_vars, is_connected,
                    connects, frames >>

\* "Subscribe to existing tokens": a snapshot of the Subscription Set under
\* the read lock (taken and given back within the statement) and, when it
\* is not empty, send_subscription (whose send succeeds or fails)
WsSubscribe ==
    /\ ws_pc = "subscribe"
    /\ TokensReadable
    /\ LET tokens == subscribed_tokens IN
       IF tokens = << >>
       THEN /\ ws_pc' = "streaming"
            /\ UNCHANGED << ws_events, reconnect_attempts, ws_sink >>
       ELSE \E ok \in BOOLEAN :
              IF ok
              THEN /\ ws_sink' = Append(ws_sink, SubscriptionMsg(tokens))
                   /\ ws_events' = Append(ws_events,
                                     Notification("websocket_handler",
                                                  "Sent subscription"))
                   /\ ws_pc' = "streaming"
                   /\ UNCHANGED reconnect_attempts
              ELSE /\ ConnectionError
                   /\ UNCHANGED ws_sink
    /\ UNCHANGED << command_queue, consumer_vars, access_token, store_vars, backoff_vars, frame_vars, log_vars, drain_vars, write_guard, event_receiver, pnl_data,
                    subscribed_tokens, api_vars, cmd_vars, is_connected,
                    connects, frames >>

\* a Ping arm that sends nothing
send_pong_Nothing(sink) == sink

\* ws_sender.send(Message::Pong(vec![].into())) that succeeds: one Pong is
\* sent on the connection
send_pong(sink) == Append(sink, [a |-> "pong"])

\* the receive loop's report of a TickUpdate that could not be sent
TickSendError ==
    IF event_receiver = "alive" THEN << >>
    ELSE << Error("websocket_handler", "Tick processing error") >>

\* ws_receiver.next() yields a frame: what every arm of the receive loop
\* leaves alone
RecvFrame ==
    /\ ws_pc = "streaming"
    /\ frames < MaxFrames
    /\ frames' = frames + 1
    /\ UNCHANGED << command_queue, consumer_vars, access_token, store_vars, backoff_vars, frame_vars, log_vars, drain_vars, write_guard, event_receiver, pnl_data,
                    subscribed_tokens, api_vars, cmd_vars, is_connected,
                    connects >>

\* Ok(Message::Binary(data)): process_tick_data drops a frame shorter than
\* 8 bytes and sends one TickUpdate for any other; a send that fails is
\* reported by send_error and the loop goes on
WsBinary ==
    /\ RecvFrame
    /\ \E short \in BOOLEAN, instrument_token \in Tokens :
          ws_events' = IF short THEN ws_events
                       ELSE ws_events \o << TickUpdate(instrument_token) >>
                            \o TickSendError
    /\ UNCHANGED << reconnect_attempts, ws_pc, ws_sink >>

\* Ok(Message::Text(text)): process_text_message notifies a JSON status at
\* Info, logs text that is not JSON at Debug and ignores other JSON
WsText ==
    /\ RecvFrame
    /\ \E kind \in { "status", "json", "text" } :
          ws_events' = CASE kind = "status" ->
                              Append(ws_events, Notification("websocket_handler",
                                                             "WebSocket status"))
                         [] kind = "text" ->
                              Append(ws_events, Notification("websocket_handler",
                                                             "Received text message"))
                         [] OTHER -> ws_events
    /\ UNCHANGED << reconnect_attempts, ws_pc, ws_sink >>

\* Ok(Message::Close(_)): notification and break
WsClose ==
    /\ RecvFrame
    /\ ws_events' = Append(ws_events, Notification("websocket_handler",
                                        "WebSocket connection closed by server"))
    /\ ws_pc' = "lost"
    /\ UNCHANGED << reconnect_attempts, ws_sink >>

\* Ok(Message::Ping(_)): a Pong is sent; a failed send is reported and the
\* loop goes on
WsPing ==
    /\ RecvFrame
    /\ \E ok \in BOOLEAN :
          IF ok
          THEN ws_sink' = send_pong(ws_sink) /\ ws_events' = ws_events
          ELSE ws_sink' = ws_sink
               /\ ws_events' = Append(ws_events, Error("websocket_handler",
                                                       "Failed to send pong"))
    /\ UNCHANGED << reconnect_attempts, ws_pc >>

\* Ok(_): any other message type is ignored
WsOther ==
    /\ RecvFrame
    /\ UNCHANGED << ws_events, reconnect_attempts, ws_pc, ws_sink >>

\* Err(e) from the stream: connect_and_process returns Err at once
WsError ==
    /\ RecvFrame
    /\ ConnectionError
    /\ UNCHANGED ws_sink

\* ws_receiver.next() returns None: the stream has ended, the loop is left
WsEnd ==
    /\ ws_pc = "streaming"
    /\ ws_pc' = "lost"
    /\ UNCHANGED << command_queue, consumer_vars, access_token, store_vars, backoff_vars, frame_vars, log_vars, drain_vars, write_guard, event_receiver, pnl_data,
                    subscribed_tokens, api_vars, cmd_vars, reconnect_attempts,
                    ws_sink, ws_events, is_connected, connects, frames >>

\* "Connection lost": the flag, the Disconnected event, Ok(()) to run, which
\* breaks out of its loop and sends the stop notification. The event is
\* sent with `?`: when the receiver is gone run gets an Err instead
WsLost ==
    /\ ws_pc = "lost"
    /\ is_connected' = FALSE
    /\ IF event_receiver = "alive"
       THEN /\ ws_events' = ws_events \o << WebSocketDisconnected,
                                Notification("websocket_handler",
                                             "WebSocket handler stopped") >>
            /\ ws_pc' = "stopped"
            /\ UNCHANGED reconnect_attempts
       ELSE HandleReconnection(reconnect_attempts,
                ws_events \o << WebSocketDisconnected,
                    Error("websocket_handler", "WebSocket connection error") >>)
    /\ UNCHANGED << command_queue, consumer_vars, access_token, store_vars, backoff_vars, frame_vars, log_vars, drain_vars, write_guard, event_receiver, pnl_data,
                    subscribed_tokens, api_vars, cmd_vars,
                    ws_sink, connects, frames >>

\* the backoff sleep of handle_reconnection is over: back to the top of
\* run's loop
WsBackoffWake ==
    /\ ws_pc = "backoff"
    /\ ws_pc' = "loop"
    /\ UNCHANGED << command_queue, consumer_vars, access_token, store_vars, backoff_vars, frame_vars, log_vars, drain_vars, write_guard, event_receiver, pnl_data,
                    subscribed_tokens, api_vars, cmd_vars, reconnect_attempts,
                    ws_sink, ws_events, is_connected, connects, frames >>

\* ------------------------------------------------------- specification
ConsumerNext == (\E c \in Command : SendCommand(c)) \/ OnExit

ApiNext == ApiStart \/ ApiRecv \/ ApiHandle

CmdNext == CmdRecv \/ CmdHandle

WsNext ==
    \/ WsStart \/ WsLoop \/ WsPollWake \/ WsPrecheck \/ WsHandshake
    \/ WsConnected \/ WsSubscribe \/ WsBinary \/ WsText \/ WsClose \/ WsPing
    \/ WsOther \/ WsError \/ WsEnd \/ WsLost \/ WsBackoffWake

Next == ConsumerNext \/ ApiNext \/ CmdNext \/ WsNext

Spec == Init /\ [][Next]_vars

\* the ingestion worker without ApiHandler: to command_processor a command
\* received by ApiHandler is a command that was never sent, and ApiHandler
\* touches nothing else that the ingestion worker reads
NextIngest == ConsumerNext \/ CmdNext \/ WsNext

SpecIngest == Init /\ [][NextIngest]_vars

\* ------------------------------------------------------------ C1 .. C5
ShutdownTaken ==
    /\ ~app_running
    /\ \A i \in 1..Len(command_queue) : command_queue[i] # Shutdown

\* a new connection attempt begins: run enters connect_and_process
StartsAttempt == ws_pc = "loop" /\ ws_pc' = "precheck"

\* C1: after on_exit's one Shutdown command every loop that reads the
\* Command queue observes it and terminates: once the Shutdown has left
\* the queue, neither ApiHandler::run nor command_processor is still
\* waiting in recv() - both have stopped.
C1_ShutdownStopsEveryLoop ==
    (ShutdownTaken /\ api_pc \in { "recv", "stopped" }
                   /\ cmd_pc \in { "recv", "stopped" })
        => (api_pc = "stopped" /\ cmd_pc = "stopped")

\* C2: once Shutdown has been issued the connect/reconnect loop of run
\* stops and makes no further connection attempt: after the ingestion
\* worker's command loop has received the Shutdown, run never enters
\* connect_and_process again.
C2_NoAttemptAfterShutdown ==
    [][cmd_pc = "stopped" => ~StartsAttempt]_vars

\* C3: when the failed attempts exceed max_reconnect_attempts the machine
\* stops retrying: with the budget exhausted and no ReconnectWebSocket
\* command ever sent, run never enters connect_and_process again.
C3_NoAttemptAfterExhaustion ==
    [][(reconnect_attempts > max_reconnect_attempts /\ ~reconnect_sent)
          => ~StartsAttempt]_vars

\* C4: a close frame or the end of the stream leads to a new connection
\* attempt unless the budget is exhausted or Shutdown was issued: run
\* reaches its stopped state (where it never connects again) only after
\* on_exit or with the budget exhausted.
C4_StoppedOnlyOnShutdownOrExhaustion ==
    ws_pc = "stopped" =>
        (~app_running \/ reconnect_attempts > max_reconnect_attempts)

\* C5: every exit from Streaming emits WebSocketDisconnected: in run's
\* event sequence a WebSocketDisconnected lies between any
\* WebSocketConnected and the next WebSocketReconnecting or
\* WebSocketConnected.
C5_DisconnectedAfterEveryStream ==
    \A i, j \in 1..Len(ws_events) :
        ( /\ i < j
          /\ ws_events[i].type = "WebSocketConnected"
          /\ ws_events[j].type \in { "WebSocketReconnecting", "WebSocketConnected" } )
        => \E k \in (i + 1)..(j - 1) : ws_events[k].type = "WebSocketDisconnected"

\* ----------------------------------------------------------- C6 .. C10
\* the events that end a connection in run's event sequence
EndsConnection(e) ==
    \/ e.type = "WebSocketDisconnected"
    \/ (e.type = "Error" /\ e.error = "WebSocket connection error")

\* C6: a successful handshake sets the reconnect-attempt counter to 0 and
\* emits WebSocketConnected before any TickUpdate of that connection (every
\* TickUpdate follows a WebSocketConnected with no end of connection in
\* between); so the first WebSocketReconnecting after a WebSocketConnected
\* carries attempt = 1.
C6_ConnectedResetsAttempts ==
    LET at(type) == { i \in 1..Len(ws_events) : ws_events[i].type = type }
        connected == at("WebSocketConnected")
        reconnecting == at("WebSocketReconnecting")
        ends == { i \in 1..Len(ws_events) : EndsConnection(ws_events[i]) }
    IN  /\ ws_pc \in { "subscribe", "streaming", "lost" } => reconnect_attempts = 0
        /\ \A j \in at("TickUpdate") :
              \E i \in connected :
                 i < j /\ \A k \in ends : ~(i < k /\ k < j)
        /\ \A i \in connected : \A j \in reconnecting :
              (i < j /\ \A k \in reconnecting : ~(i < k /\ k < j))
              => ws_events[j].attempt = 1

\* a failed attempt, then a connection, then its loss: the counter had been
\* counted up and the next WebSocketReconnecting restarts at 1
C6_Witness ==
    \E i, j, k \in 1..Len(ws_events) :
        /\ i < j /\ j < k
        /\ ws_events[i].type = "WebSocketReconnecting"
        /\ ws_events[j].type = "WebSocketConnected"
        /\ ws_events[k].type = "WebSocketReconnecting"

SubscribeMsgs(sink) == { i \in 1..Len(sink) : sink[i].a = "subscribe" }

\* C7: after every successful handshake, when the receive loop is entered
\* the connection has been sent exactly one subscribe message carrying the
\* Subscription Set as it was read, or nothing if the set was empty; no
\* frame is processed before that, and no later step of the connection
\* sends a second subscribe message.
C7_ResubscribeOnConnect ==
    /\ [][(ws_pc = "subscribe" /\ ws_pc' = "streaming") =>
             ws_sink' = IF subscribed_tokens = << >> THEN << >>
                        ELSE << [a |-> "subscribe", v |-> subscribed_tokens] >>]_vars
    /\ [][frames' # frames => ws_pc = "streaming"]_vars
    /\ [](ws_pc \in { "subscribe", "streaming", "lost" } =>
             SubscribeMsgs(ws_sink) \subseteq { 1 })

\* a connection made at the second or a later attempt, with no connection
\* before it, that was sent the Subscription Set: its ids were subscribed
\* while the machine was disconnected
C7_Witness ==
    /\ ws_pc = "streaming"
    /\ connects >= 2
    /\ Cardinality({ i \in 1..Len(ws_events) :
                       ws_events[i].type = "WebSocketConnected" }) = 1
    /\ subscribed_tokens # << >>
    /\ ws_sink = << [a |-> "subscribe", v |-> subscribed_tokens] >>

\* C8: a Subscribe (Unsubscribe) command handled while Streaming also sends
\* a subscribe (unsubscribe) control message for its ids on the live
\* connection.
C8_LiveSubscribe ==
    [][( /\ cmd_pc = "handle" /\ cmd_pc' = "recv"
         /\ cmd_cur.tag \in { "SubscribeToTicks", "UnsubscribeFromTicks" }
         /\ ws_pc = "streaming" /\ ws_pc' = "streaming" )
       => ws_sink' = Append(ws_sink,
              [a |-> IF cmd_cur.tag = "SubscribeToTicks" THEN "subscribe"
                     ELSE "unsubscribe",
               v |-> cmd_cur.instrument_tokens])]_vars

SubMaxToken == 2         \* instrument tokens are 1..SubMaxToken here
SubMaxListLen == 2       \* longest instrument_tokens vector, empty included
SubMaxCommands == 3      \* commands sent, one after the other

\* every vector of at most n tokens, duplicates included
RECURSIVE SeqsUpTo(_)
SeqsUpTo(n) == IF n = 0 THEN { << >> }
               ELSE LET shorter == SeqsUpTo(n - 1)
                    IN  shorter \cup { Append(l, t) : l \in shorter,
                                                      t \in 1..SubMaxToken }

SubCommand == { SubscribeToTicks(l) : l \in SeqsUpTo(SubMaxListLen) }
                \cup { UnsubscribeFromTicks(l) : l \in SeqsUpTo(SubMaxListLen) }

\* command_processor at its first recv(), nothing sent yet
InitSub ==
    /\ app_running = TRUE
    /\ command_queue = << >>
    /\ sent = 0
    /\ reconnect_sent = FALSE
    /\ ws_events = << Notification("websocket_handler", "WebSocket handler started") >>
    /\ cmd_events = << >>
    /\ api_events = << >>
    /\ access_token = None
    /\ subscribed_tokens = << >>
    /\ is_connected = FALSE
    /\ reconnect_attempts = 0
    /\ ws_pc = "loop"
    /\ ws_sink = << >>
    /\ cmd_pc = "recv"
    /\ cmd_cur = NoCmd
    /\ api_pc = "start"
    /\ api_cur = NoCmd
    /\ connects = 0
    /\ frames = 0
    /\ InitStore
    /\ InitFrames
    /\ InitDrain
    /\ requests = << >>
    /\ write_guard = NoGuard
    /\ InitLogs
    /\ event_receiver = "alive"
    /\ InitBackoff

\* AppState::send_command, one command at a time: the next command is sent
\* when the one before it has been handled
SubSend(c) ==
    /\ app_running
    /\ sent < SubMaxCommands
    /\ command_queue = << >> /\ cmd_pc = "recv"
    /\ sent' = sent + 1
    /\ command_queue' = Append(command_queue, c)
    /\ UNCHANGED << app_running, reconnect_sent, access_token, store_vars, backoff_vars, frame_vars, log_vars, drain_vars, write_guard, event_receiver, pnl_data,
                    subscribed_tokens, api_vars, cmd_vars, ws_vars >>

NextSub == (\E c \in SubCommand : SubSend(c)) \/ CmdRecv \/ CmdHandle

SpecSub == InitSub /\ [][NextSub]_vars

NoDuplicates(s) == \A i, j \in 1..Len(s) : i # j => s[i] # s[j]

\* C10: the Subscription Set never holds an id twice, also when a command
\* lists an id twice; a Subscribe makes its id set the union with the
\* command's ids and changes nothing when they are all present; an
\* Unsubscribe makes it the difference and changes nothing when none of its
\* ids is present.
C10_SubscriptionSetAlgebra ==
    /\ []NoDuplicates(subscribed_tokens)
    /\ [][(cmd_pc = "handle" /\ cmd_pc' = "recv") =>
            LET ids == Range(cmd_cur.instrument_tokens)
                old == Range(subscribed_tokens)
            IN  IF cmd_cur.tag = "SubscribeToTicks"
                THEN /\ Range(subscribed_tokens') = old \cup ids
                     /\ ids \subseteq old => subscribed_tokens' = subscribed_tokens
                ELSE /\ Range(subscribed_tokens') = old \ ids
                     /\ ids \cap old = {} => subscribed_tokens' = subscribed_tokens]_vars

\* an earlier Subscribe has put id 1 into the set and a command listing
\* id 1 twice is being handled
C10_Witness ==
    /\ cmd_pc = "handle"
    /\ cmd_cur = SubscribeToTicks(<< 1, 1 >>)
    /\ subscribed_tokens = << 1 >>
    /\ Len(cmd_events) >= 1

\* ============================================================ the store
\* Position::calculate_pnl: nothing is computed for a quantity of 0
calculate_pnl(position) ==
    IF position.quantity # 0
    THEN [position EXCEPT
            !.pnl = (position.last_price - position.average_price) * position.quantity,
            !.unrealized_pnl =
                (position.last_price - position.close_price) * position.quantity]
    ELSE position

\* Position::update_last_price
update_last_price(position, new_price) ==
    calculate_pnl([position EXCEPT !.last_price = new_price])

\* update_position_price that prices every position with the tick
update_position_price_All(map, instrument_token, last_price) ==
    [t \in DOMAIN map |->
        IF map[t] # Absent THEN update_last_price(map[t], last_price) ELSE map[t]]

\* AppState::update_position_price: only a position that exists is touched
update_position_price(map, instrument_token, last_price) ==
    IF map[instrument_token] # Absent
    THEN [map EXCEPT ![instrument_token] = update_last_price(@, last_price)]
    ELSE map

\* for position in positions { self.positions.insert(token, position) }
RECURSIVE InsertPositions(_, _)
InsertPositions(map, list) ==
    IF list = << >> THEN map
    ELSE InsertPositions([map EXCEPT ![Head(list).instrument_token] = Head(list)],
                         Tail(list))

\* the PositionsUpdated arm without its clear()
ReplacePositions_NoClear(map, list) == InsertPositions(map, list)

\* the PositionsUpdated arm: clear(), then insert every position of the event
ReplacePositions(map, list) ==
    InsertPositions([t \in DOMAIN map |-> Absent], list)

\* for order in orders { self.orders.insert(order.order_id.clone(), order) }
RECURSIVE InsertOrders(_, _)
InsertOrders(map, list) ==
    IF list = << >> THEN map
    ELSE InsertOrders([map EXCEPT ![Head(list).order_id] = Head(list)], Tail(list))

\* the OrdersUpdated arm with a clear() like the one of PositionsUpdated
UpdateOrders_Clear(map, list) ==
    InsertOrders([id \in DOMAIN map |-> Absent], list)

\* the OrdersUpdated arm: insert every order of the event, keep the others
UpdateOrders(map, list) == InsertOrders(map, list)

\* the tick_data part of the TickUpdate arm, an older timestamp not stored
UpdateTickData_NewerOnly(map, e) ==
    IF map[e.instrument_token] # Absent
    THEN IF TimestampNanos(e.timestamp) < map[e.instrument_token].timestamp_nanos
         THEN map
         ELSE [map EXCEPT ![e.instrument_token] =
                 [@ EXCEPT !.last_price = e.last_price, !.volume = e.volume,
                           !.timestamp_nanos = TimestampNanos(e.timestamp)]]
    ELSE [map EXCEPT ![e.instrument_token] =
            [instrument_token |-> e.instrument_token, last_price |-> e.last_price,
             last_quantity |-> 0, average_price |-> e.last_price,
             volume |-> e.volume, buy_quantity |-> 0, sell_quantity |-> 0,
             ohlc |-> [open |-> e.last_price, high |-> e.last_price,
                       low |-> e.last_price, close |-> e.last_price],
             timestamp_nanos |-> TimestampNanos(e.timestamp)]]

\* the tick_data part of the TickUpdate arm keeping the day's high and low
UpdateTickData_Ohlc(map, e) ==
    IF map[e.instrument_token] # Absent
    THEN [map EXCEPT ![e.instrument_token] =
            [@ EXCEPT !.last_price = e.last_price, !.volume = e.volume,
                      !.timestamp_nanos = TimestampNanos(e.timestamp),
                      !.ohlc.high = IF e.last_price > @ THEN e.last_price ELSE @,
                      !.ohlc.low = IF e.last_price < @ THEN e.last_price ELSE @,
                      !.ohlc.close = e.last_price]]
    ELSE [map EXCEPT ![e.instrument_token] =
            [instrument_token |-> e.instrument_token, last_price |-> e.last_price,
             last_quantity |-> 0, average_price |-> e.last_price,
             volume |-> e.volume, buy_quantity |-> 0, sell_quantity |-> 0,
             ohlc |-> [open |-> e.last_price, high |-> e.last_price,
                       low |-> e.last_price, close |-> e.last_price],
             timestamp_nanos |-> TimestampNanos(e.timestamp)]]

\* the tick_data part of the TickUpdate arm: an entry that exists gets the
\* event's price, volume and timestamp, a new one is built from the event
UpdateTickData(map, e) ==
    IF map[e.instrument_token] # Absent
    THEN [map EXCEPT ![e.instrument_token] =
            [@ EXCEPT !.last_price = e.last_price, !.volume = e.volume,
                      !.timestamp_nanos = TimestampNanos(e.timestamp)]]
    ELSE [map EXCEPT ![e.instrument_token] =
            [instrument_token |-> e.instrument_token, last_price |-> e.last_price,
             last_quantity |-> 0, average_price |-> e.last_price,
             volume |-> e.volume, buy_quantity |-> 0, sell_quantity |-> 0,
             ohlc |-> [open |-> e.last_price, high |-> e.last_price,
                       low |-> e.last_price, close |-> e.last_price],
             timestamp_nanos |-> TimestampNanos(e.timestamp)]]

\* AppState::handle_event: what it does to the maps and the metrics (what
\* it does to the log is handle_event_log)
handle_event(e) ==
    CASE e.type = "PositionsUpdated" ->
            /\ positions' = ReplacePositions(positions, e.positions)
            /\ UNCHANGED << orders, tick_data, ticks_processed >>
      [] e.type = "OrdersUpdated" ->
            /\ orders' = UpdateOrders(orders, e.orders)
            /\ UNCHANGED << positions, tick_data, ticks_processed >>
      [] e.type = "TickUpdate" ->
            /\ positions' = update_position_price(positions, e.instrument_token,
                                                  e.last_price)
            /\ tick_data' = UpdateTickData(tick_data, e)
            /\ ticks_processed' = ticks_processed + 1
            /\ UNCHANGED orders
      [] OTHER ->
            UNCHANGED << positions, orders, tick_data, ticks_processed >>

\* the variables the store specifications leave alone
worker_vars == << app_running, command_queue, sent, reconnect_sent, ws_events,
                  cmd_events, api_events, access_token, subscribed_tokens,
                  is_connected, reconnect_attempts, ws_pc, ws_sink, cmd_pc,
                  cmd_cur, api_pc, api_cur, requests, connects, frames >>

\* both workers are running and the connection is streaming
WorkersRunning ==
    /\ app_running = TRUE
    /\ command_queue = << >>
    /\ sent = 0
    /\ reconnect_sent = FALSE
    /\ ws_events = << Notification("websocket_handler", "WebSocket handler started"),
                      Notification("websocket_handler",
                                   "Connecting to Zerodha WebSocket..."),
                      WebSocketConnected,
                      Notification("websocket_handler",
                                   "WebSocket connected successfully") >>
    /\ cmd_events = << >>
    /\ api_events = << Notification("api_handler", "API handler started") >>
    /\ access_token = Some("a1b2c3d4e5f6g7h8i9j0k1l2m3n4o5p6")
    /\ subscribed_tokens = << >>
    /\ is_connected = TRUE
    /\ reconnect_attempts = 0
    /\ ws_pc = "streaming"
    /\ ws_sink = << >>
    /\ cmd_pc = "recv"
    /\ cmd_cur = NoCmd
    /\ api_pc = "recv"
    /\ api_cur = NoCmd
    /\ connects = 1
    /\ frames = 0

\* both workers are running, the connection is streaming and the consumer
\* has drained the events sent so far
InitRunning ==
    /\ WorkersRunning
    /\ InitStore
    /\ InitFrames
    /\ InitDrain
    /\ requests = << >>
    /\ write_guard = NoGuard
    /\ InitLogs
    /\ event_receiver = "alive"
    /\ InitBackoff

\* EventSender::send by some worker to the living receiver, one event in
\* flight at a time
SendEvent(e) ==
    /\ event_receiver = "alive"
    /\ event_queue = << >>
    /\ e.type = "TickUpdate" => ticks_processed < MaxTicks
    /\ event_queue' = << e >>
    /\ UNCHANGED << positions, orders, tick_data, ticks_processed, wire,
                    applied_frame, worker_vars, backoff_vars, frame_vars,
                    log_vars, drain_vars, write_guard, event_receiver, pnl_data >>

\* AppState::process_events, one turn of its loop: try_recv() returns the
\* head of the Event channel and handle_event applies it (the log, which
\* grows with every turn, is left to process_events_log)
process_events ==
    /\ event_receiver = "alive"
    /\ event_queue # << >>
    /\ event_queue' = Tail(event_queue)
    /\ handle_event(Head(event_queue))
    /\ applied_frame' =
          IF Head(event_queue).type = "TickUpdate"
          THEN [applied_frame EXCEPT
                  ![Head(event_queue).instrument_token] = Head(event_queue).frame]
          ELSE applied_frame
    /\ UNCHANGED << wire, worker_vars, backoff_vars, frame_vars, log_vars, drain_vars, write_guard,
                    event_receiver, pnl_data >>

\* the events of the position and tick stores, and some events of other kinds
PositionEvents ==
    { PositionsUpdatedWith(l) : l \in ListsOf(FetchedPositions) }
    \cup { TickUpdateWith(t, p.last_price, p.volume, p.timestamp, 0) :
             t \in StoreTokens, p \in TickPayloads }
    \cup { OrdersUpdatedWith(<< >>), WebSocketConnected, OrderPlaced(1),
           Notification("api_handler", "Positions fetched successfully"),
           Error("api_handler", "Failed to fetch positions") }

NextStore == (\E e \in PositionEvents : SendEvent(e)) \/ process_events

SpecStore == InitRunning /\ [][NextStore]_vars

\* the events of the order store, and some events of other kinds
OrderEvents ==
    { OrdersUpdatedWith(l) : l \in ListsOf(FetchedOrders) }
    \cup { OrderPlaced(id) : id \in OrderIds }
    \cup { PositionsUpdatedWith(<< >>), WebSocketDisconnected,
           Notification("api_handler", "Orders fetched successfully") }

NextOrders == (\E e \in OrderEvents : SendEvent(e)) \/ process_events

SpecOrders == InitRunning /\ [][NextOrders]_vars

\* ---------------------------------------------------------- C11 .. C15
\* process_events applies the event at the head of the Event channel
Applies(type) ==
    /\ event_queue # << >>
    /\ Head(event_queue).type = type
    /\ event_queue' = Tail(event_queue)

\* C11: every position of the store has pnl = (last_price - average_price)
\* * quantity and unrealized_pnl = (last_price - close_price) * quantity,
\* positions just inserted and positions of quantity 0 included
C11_PnlInvariant ==
    \A t \in Keys(positions) :
       /\ positions[t].pnl =
             (positions[t].last_price - positions[t].average_price)
                * positions[t].quantity
       /\ positions[t].unrealized_pnl =
             (positions[t].last_price - positions[t].close_price)
                * positions[t].quantity

\* C12: applying TickUpdate{id, price} to a store that has position id sets
\* its last_price to price and its pnl and unrealized_pnl to the values of
\* the new price in the same step; every applied TickUpdate adds exactly 1
\* to ticks_processed and nothing else changes it
C12_TickUpdatesPriceAndPnl ==
    /\ [][Applies("TickUpdate") =>
            LET e == Head(event_queue)
                id == e.instrument_token
            IN  /\ ticks_processed' = ticks_processed + 1
                /\ positions[id] # Absent =>
                     /\ positions'[id].last_price = e.last_price
                     /\ positions'[id].pnl =
                           (e.last_price - positions[id].average_price)
                              * positions[id].quantity
                     /\ positions'[id].unrealized_pnl =
                           (e.last_price - positions[id].close_price)
                              * positions[id].quantity]_vars
    /\ [][~Applies("TickUpdate") => ticks_processed' = ticks_processed]_vars

\* C13: applying PositionsUpdated(S) makes the position keys exactly the
\* instrument ids of S; no other step adds or removes a position key
C13_PositionKeys ==
    [][IF Applies("PositionsUpdated")
       THEN LET S == Head(event_queue).positions
            IN  Keys(positions') = { S[i].instrument_token : i \in 1..Len(S) }
       ELSE Keys(positions') = Keys(positions)]_vars

\* a tick of instrument 1 was applied (it has a Live Tick entry) and the
\* only position is the one of instrument 2, which a refresh inserted and a
\* tick then repriced
C13_Witness ==
    /\ Keys(positions) = { 2 }
    /\ tick_data[1] # Absent
    /\ positions[2].last_price = 105
    /\ event_queue = << >>

\* C14: the order ids of the store never shrink; OrdersUpdated(S) leaves
\* every order whose id is not in S as it was and stores under every id of
\* S an order of S with that id; no other event touches the orders
C14_OrdersOnlyGrow ==
    /\ [][Keys(orders) \subseteq Keys(orders')]_vars
    /\ [][IF Applies("OrdersUpdated")
          THEN LET S == Head(event_queue).orders
                   ids == { S[i].order_id : i \in 1..Len(S) }
               IN  \A id \in DOMAIN orders :
                      IF id \in ids
                      THEN \E i \in 1..Len(S) :
                              S[i].order_id = id /\ orders'[id] = S[i]
                      ELSE orders'[id] = orders[id]
          ELSE orders' = orders]_vars

\* order 1 is still Open while a refresh that names only order 2 has been
\* applied on top of it and has turned order 2 to Complete
C14_Witness ==
    /\ Keys(orders) = { 1, 2 }
    /\ orders[1].status = "Open"
    /\ orders[2].status = "Complete"
    /\ event_queue = << >>

\* C15: an applied TickUpdate creates the instrument's Live Tick entry or
\* overwrites its price, volume and timestamp, an older timestamp included,
\* and touches no other entry; no other event touches the Live Ticks
C15_LastTickWins ==
    [][IF Applies("TickUpdate")
       THEN LET e == Head(event_queue)
            IN  \A t \in DOMAIN tick_data :
                   IF t = e.instrument_token
                   THEN /\ tick_data'[t] # Absent
                        /\ tick_data'[t].last_price = e.last_price
                        /\ tick_data'[t].volume = e.volume
                        /\ tick_data'[t].timestamp_nanos =
                              e.timestamp.secs * 1000000000 + e.timestamp.nsecs
                   ELSE tick_data'[t] = tick_data[t]
       ELSE tick_data' = tick_data]_vars

\* the entry of instrument 1 was created by the tick of price 105 (its
\* average_price is set once, at creation) and then overwritten by the tick
\* of price 110, whose timestamp is the older one
C15_Witness ==
    /\ tick_data[1] # Absent
    /\ tick_data[1].average_price = 105
    /\ tick_data[1].last_price = 110
    /\ tick_data[1].volume = 2
    /\ tick_data[1].timestamp_nanos = 5

\* ====================================================== wire to store
\* process_tick_data pushing its TickUpdate to the front of the channel
process_tick_data_Front ==
    /\ event_receiver = "alive"
    /\ ws_pc = "streaming"
    /\ wire < MaxWire
    /\ wire' = wire + 1
    /\ \E short \in BOOLEAN, t \in StoreTokens, p \in TickPayloads :
          event_queue' =
             IF short THEN event_queue
             ELSE << TickUpdateWith(t, p.last_price, p.volume, p.timestamp,
                                    wire + 1) >> \o event_queue
    /\ UNCHANGED << positions, orders, tick_data, ticks_processed,
                    applied_frame, worker_vars, backoff_vars, frame_vars,
                    log_vars, drain_vars, write_guard, event_receiver, pnl_data >>

\* the receive loop reads the next binary frame from the wire and
\* process_tick_data sends its TickUpdate, or nothing for a frame shorter
\* than 8 bytes
process_tick_data ==
    /\ event_receiver = "alive"
    /\ ws_pc = "streaming"
    /\ wire < MaxWire
    /\ wire' = wire + 1
    /\ \E short \in BOOLEAN, t \in StoreTokens, p \in TickPayloads :
          event_queue' =
             IF short THEN event_queue
             ELSE Append(event_queue,
                         TickUpdateWith(t, p.last_price, p.volume, p.timestamp,
                                        wire + 1))
    /\ UNCHANGED << positions, orders, tick_data, ticks_processed,
                    applied_frame, worker_vars, backoff_vars, frame_vars,
                    log_vars, drain_vars, write_guard, event_receiver, pnl_data >>

\* EventSender::send_notification by another task (ApiHandler or
\* command_processor) while the receive loop runs
send_notification ==
    /\ event_receiver = "alive"
    /\ Len(event_queue) < MaxWire
    /\ event_queue' = Append(event_queue,
                        Notification("api_handler", "Orders fetched successfully"))
    /\ UNCHANGED << positions, orders, tick_data, ticks_processed, wire,
                    applied_frame, worker_vars, backoff_vars, frame_vars,
                    log_vars, drain_vars, write_guard, event_receiver, pnl_data >>

NextWire == process_tick_data \/ send_notification \/ process_events

SpecWire == InitRunning /\ [][NextWire]_vars

\* ------------------------------------------------------------------ C16
\* C16: the ticks of one instrument are applied in the order their frames
\* were read from the wire: the frame of every tick applied for an
\* instrument is a later frame than the one applied before it
C16_TicksAppliedInWireOrder ==
    [][\A t \in StoreTokens :
          applied_frame'[t] # applied_frame[t] => applied_frame'[t] > applied_frame[t]]_vars

\* two ticks of instrument 1 from different frames (the entry was created
\* by the tick of price 105 and overwritten by the tick of price 110) have
\* been applied, the second while a later frame was already in the channel
C16_Witness ==
    /\ ticks_processed = 2
    /\ tick_data[1] # Absent
    /\ tick_data[1].average_price = 105
    /\ tick_data[1].last_price = 110
    /\ applied_frame[1] = 2
    /\ Len(event_queue) = 1
    /\ event_queue[1].type = "TickUpdate"
    /\ event_queue[1].frame = 3

\* ------------------------------------------------------------------ C17
\* C17: every command reaches the worker that acts on its tag. A message
\* of the shared queue is taken by exactly one receiver, so this is: the
\* Request Worker never takes a SubscribeToTicks / UnsubscribeFromTicks,
\* and the command-intake loop never takes a command of the Request Worker
C17_DeliveredToActingWorker ==
    /\ [][(api_pc = "recv" /\ api_pc' = "handle") =>
             api_cur'.tag \notin { "SubscribeToTicks", "UnsubscribeFromTicks" }]_vars
    /\ [][(cmd_pc = "recv" /\ cmd_pc' = "handle") =>
             cmd_cur'.tag \notin { "FetchPositions", "FetchOrders",
                                   "FetchInstruments", "PlaceOrder",
                                   "ModifyOrder", "CancelOrder" }]_vars

\* ===================================================== reconnect delay
\* config.app.websocket_reconnect_delay_ms: 1 and 3 make delay / 4 round
\* (down to 0 for a delay of 2), 1000 is the value of the spec's scenario
BaseDelays == { 1, 3, 1000 }

Min(a, b) == IF a < b THEN a ELSE b

\* u64::pow
RECURSIVE pow(_, _)
pow(b, e) == IF e = 0 THEN 1 ELSE b * pow(b, e - 1)

\* the delay without the cap of the exponent
BackoffDelay_Uncapped(base, attempts) == base * pow(2, attempts)

\* base_delay * (2_u64.pow(self.reconnect_attempts.min(5)))
BackoffDelay(base, attempts) == base * pow(2, Min(attempts, 5))

\* a jitter of up to delay / 2
Jitters_Half(d) == 0..((d \div 2) - 1)

\* the values of fastrand::u64(0..delay / 4); none for an empty range
Jitters(d) == 0..((d \div 4) - 1)

\* handle_reconnection has counted the attempt and sent
\* WebSocketReconnecting{attempt}; the delay is not computed yet
InitDelay ==
    /\ app_running = TRUE
    /\ command_queue = << >>
    /\ sent = 0
    /\ reconnect_sent = FALSE
    /\ reconnect_attempts \in 1..MaxAttempt
    /\ ws_events = << Notification("websocket_handler", "WebSocket handler started"),
                      Notification("websocket_handler",
                                   "Connecting to Zerodha WebSocket..."),
                      Error("websocket_handler", "WebSocket connection error"),
                      WebSocketReconnecting(reconnect_attempts) >>
    /\ cmd_events = << >>
    /\ api_events = << Notification("api_handler", "API handler started") >>
    /\ access_token = Some("a1b2c3d4e5f6g7h8i9j0k1l2m3n4o5p6")
    /\ subscribed_tokens = << >>
    /\ is_connected = FALSE
    /\ ws_pc = "delay"
    /\ ws_sink = << >>
    /\ cmd_pc = "recv"
    /\ cmd_cur = NoCmd
    /\ api_pc = "recv"
    /\ api_cur = NoCmd
    /\ connects = 1
    /\ frames = 0
    /\ InitStore
    /\ InitFrames
    /\ InitDrain
    /\ requests = << >>
    /\ write_guard = NoGuard
    /\ InitLogs
    /\ event_receiver = "alive"
    /\ base_delay \in BaseDelays
    /\ delay = 0
    /\ total_delay = 0

\* handle_reconnection from the delay to the sleep: fastrand::u64 panics on
\* an empty range, which ends the task
ReconnectDelay ==
    /\ ws_pc = "delay"
    /\ delay' = BackoffDelay(base_delay, reconnect_attempts)
    /\ IF Jitters(delay') = { }
       THEN /\ ws_pc' = "panicked"
            /\ UNCHANGED << total_delay, ws_events >>
       ELSE /\ \E jitter \in Jitters(delay') : total_delay' = delay' + jitter
            /\ ws_events' = Append(ws_events,
                              Notification("websocket_handler", "Reconnecting in"))
            /\ ws_pc' = "backoff"
    /\ UNCHANGED << base_delay, reconnect_attempts, ws_sink, is_connected,
                    connects, frames, command_queue, consumer_vars,
                    access_token, subscribed_tokens, api_vars, cmd_vars,
                    store_vars, frame_vars, log_vars, drain_vars, write_guard, event_receiver, pnl_data >>

\* the sleep of total_delay ms is over: handle_reconnection returns to run
DelayWake ==
    /\ ws_pc = "backoff"
    /\ ws_pc' = "loop"
    /\ UNCHANGED << reconnect_attempts, ws_sink, ws_events, is_connected,
                    connects, frames, command_queue, consumer_vars,
                    access_token, subscribed_tokens, api_vars, cmd_vars,
                    store_vars, backoff_vars, frame_vars, log_vars, drain_vars, write_guard, event_receiver, pnl_data >>

NextDelay == ReconnectDelay \/ DelayWake

SpecDelay == InitDelay /\ [][NextDelay]_vars

\* ----------------------------------------------------------- C18, C19
\* C18: the un-jittered delay of attempt n is base * 2^n for n in 1..5,
\* more than the delay base * 2^(n-1) of the attempt before, and base * 32
\* for every n above 5
C18_DelayDoublesUpToFive ==
    ws_pc \in { "backoff", "panicked" } =>
       /\ reconnect_attempts \in 1..5 =>
             /\ delay = base_delay * 2 ^ reconnect_attempts
             /\ delay > base_delay * 2 ^ (reconnect_attempts - 1)
       /\ reconnect_attempts > 5 => delay = base_delay * 32

\* attempt 6 of a base of 1000 ms sleeps on a delay of 32000 ms
C18_Witness ==
    /\ ws_pc = "backoff"
    /\ base_delay = 1000
    /\ reconnect_attempts = 6
    /\ delay = 32000

\* C19: the time slept is the delay d plus an integer jitter in [0, d/4):
\* it lies in [d, d + d/4); for a base of 1000 ms and attempt 3, d = 8000
\* and the jitter is below 2000
C19_JitterBelowQuarter ==
    ws_pc = "backoff" =>
       /\ total_delay - delay >= 0
       /\ 4 * (total_delay - delay) < delay
       /\ (base_delay = 1000 /\ reconnect_attempts = 3) =>
             delay = 8000 /\ total_delay - delay < 2000

\* base 1000 ms, attempt 3: the largest jitter, 1999 ms
C19_Witness ==
    /\ ws_pc = "backoff"
    /\ base_delay = 1000
    /\ reconnect_attempts = 3
    /\ delay = 8000
    /\ total_delay = 9999

\* ======================================================== access token
\* WebSocketHandler::set_access_token: the token is stored as it is given
set_access_token(token) ==
    /\ access_token' = Some(token)
    /\ UNCHANGED << command_queue, consumer_vars, subscribed_tokens, api_vars,
                    cmd_vars, ws_vars, store_vars, backoff_vars, frame_vars, log_vars, drain_vars, write_guard, event_receiver, pnl_data >>

\* the connection task of a handler built from any configuration, and a
\* caller of set_access_token
NextToken == (\E token \in ConfigTokens : set_access_token(token)) \/ WsNext

SpecToken == Init /\ [][NextToken]_vars

\* ------------------------------------------------------------------ C20
\* the states of run before connect_and_process: Idle
IdlePcs == { "start", "loop", "sleep" }

\* no token, an empty token or the placeholder
TokenAbsent ==
    \/ ~access_token.some
    \/ access_token.token \in { "", "your_access_token_here" }

\* C20: while the token is absent (none, empty or the placeholder), however
\* it was given, the machine stays Idle: it starts no pre-check or
\* connection attempt and sends no WebSocketConnected, WebSocketReconnecting
\* or Error event
C20_AbsentTokenStaysIdle ==
    [][(TokenAbsent /\ ws_pc \in IdlePcs) =>
          /\ ws_pc' \in IdlePcs
          /\ \A i \in (Len(ws_events) + 1)..Len(ws_events') :
                ws_events'[i].type \notin { "WebSocketConnected",
                                            "WebSocketReconnecting", "Error" }]_vars

\* ------------------------------------------------------------------ C21
\* the pre-check of the current attempt has failed in this step
PrecheckFails == ws_pc = "precheck" /\ ws_pc' \notin { "precheck", "handshake" }

\* C21: the handshake is entered only from a pre-check that returned 200; a
\* failed pre-check ends the attempt with an Error event, increments the
\* attempt counter and, with budget left, goes to the backoff; attempts are
\* retried up to the configured limit and not beyond it
C21_PrecheckGatesHandshake ==
    /\ [][(ws_pc' = "handshake" /\ ws_pc # "handshake") => ws_pc = "precheck"]_vars
    /\ [][PrecheckFails =>
             /\ Len(ws_events') > Len(ws_events)
             /\ ws_events'[Len(ws_events) + 1].type = "Error"
             /\ reconnect_attempts' = reconnect_attempts + 1
             /\ reconnect_attempts' <= max_reconnect_attempts => ws_pc' = "backoff"]_vars
    /\ [][(ws_pc = "loop" /\ ws_pc' = "precheck" /\ ~reconnect_sent)
             => reconnect_attempts <= max_reconnect_attempts]_vars



\* ====================================================== inbound messages
\* the messages one connection may yield before the model stops it
MaxMessages == 3

\* tungstenite Message, and the Err the stream may yield instead
Binary(data) == [kind |-> "Binary", data |-> data]

Text(text) == [kind |-> "Text", text |-> text]

Close == [kind |-> "Close"]

Ping == [kind |-> "Ping"]

Pong == [kind |-> "Pong"]

StreamErr == [kind |-> "Err"]

\* u32::from_be_bytes and u64::from_be_bytes: the first byte is the most
\* significant one
RECURSIVE from_be_bytes(_)
from_be_bytes(bytes) ==
    IF bytes = << >> THEN 0
    ELSE from_be_bytes(SubSeq(bytes, 1, Len(bytes) - 1)) * 256 + bytes[Len(bytes)]

\* f32::from_bits(u32::from_be_bytes(bytes)) as f64: the sign bit, the 8-bit
\* exponent and the 23-bit fraction of the four bytes. A finite value is
\* (-1)^sign * significand * 2^exp2; widening it to f64 is exact
f32_from_be_bytes(bytes) ==
    LET sign == bytes[1] \div 128
        exponent == (bytes[1] % 128) * 2 + bytes[2] \div 128
        fraction == (bytes[2] % 128) * 65536 + bytes[3] * 256 + bytes[4]
    IN  CASE exponent = 255 ->
                [class |-> IF fraction = 0 THEN "inf" ELSE "nan", sign |-> sign]
          [] exponent = 0 ->
                [class |-> "finite", sign |-> sign, significand |-> fraction,
                 exp2 |-> -149]
          [] OTHER ->
                [class |-> "finite", sign |-> sign,
                 significand |-> 8388608 + fraction, exp2 |-> exponent - 150]

\* the volume is read from whatever follows the price (the mutant of Volume)
Volume_FromEight(data) ==
    IF Len(data) >= 8 THEN from_be_bytes(SubSeq(data, 9, Min(16, Len(data))))
    ELSE 0

\* process_tick_data: the volume is bytes 8..15 of a frame of at least 16
\* bytes and 0 for a shorter frame
Volume(data) ==
    IF Len(data) >= 16 THEN from_be_bytes(SubSeq(data, 9, 16)) ELSE 0

\* process_tick_data that never reads the volume (the mutant of
\* ProcessTickData)
ProcessTickData_NoVolume(data, timestamp, frame) ==
    IF Len(data) < 8 THEN << >>
    ELSE << TickUpdateWith(from_be_bytes(SubSeq(data, 1, 4)),
                           f32_from_be_bytes(SubSeq(data, 5, 8)),
                           0, timestamp, frame) >>

\* process_tick_data: the events it sends for one binary frame, none for a
\* frame shorter than 8 bytes and one TickUpdate for any other
ProcessTickData(data, timestamp, frame) ==
    IF Len(data) < 8 THEN << >>
    ELSE << TickUpdateWith(from_be_bytes(SubSeq(data, 1, 4)),
                           f32_from_be_bytes(SubSeq(data, 5, 8)),
                           Volume(data), timestamp, frame) >>

\* the text frames of the model
Texts == { "{\"status\":\"ok\"}", "{\"type\":\"order\"}", "status ok", "" }

\* serde_json::from_str::<Value>(text) and json_value.get("status")
from_str(text) ==
    CASE text = "{\"status\":\"ok\"}" -> [ok |-> TRUE, status |-> Some("\"ok\"")]
      [] text = "{\"type\":\"order\"}" -> [ok |-> TRUE, status |-> None]
      [] OTHER -> [ok |-> FALSE]

\* process_text_message that reports text that is not JSON as an Error (the
\* mutant of process_text_message)
process_text_message_Strict(text) ==
    LET json_value == from_str(text)
    IN  IF json_value.ok
        THEN IF json_value.status.some
             THEN << Notification("websocket_handler", "WebSocket status") >>
             ELSE << >>
        ELSE << Error("websocket_handler", "Received text message") >>

\* process_text_message: the events it sends for one text frame
process_text_message(text) ==
    LET json_value == from_str(text)
    IN  IF json_value.ok
        THEN IF json_value.status.some
             THEN << Notification("websocket_handler", "WebSocket status") >>
             ELSE << >>
        ELSE << Notification("websocket_handler", "Received text message") >>

\* ws_receiver.next() yields message m
ReceiveMessage(m) ==
    /\ ws_pc = "streaming"
    /\ msg = NoMsg
    /\ Len(inbox) < MaxMessages
    /\ msg' = m
    /\ inbox' = Append(inbox, m)
    /\ frames' = frames + 1
    /\ UNCHANGED << command_queue, consumer_vars, access_token, store_vars,
                    backoff_vars, log_vars, drain_vars, write_guard, event_receiver, pnl_data, subscribed_tokens,
                    api_vars, cmd_vars, is_connected, connects, ws_events,
                    reconnect_attempts, ws_pc, ws_sink >>

\* the arm of the receive loop that matches the message in hand
HandleMessage ==
    /\ ws_pc = "streaming"
    /\ msg # NoMsg
    /\ msg' = NoMsg
    /\ CASE msg.kind = "Binary" ->
              /\ \E timestamp \in Timestamps :
                    LET events == ProcessTickData(msg.data, timestamp, frames)
                    IN  ws_events' = ws_events \o events
                            \o (IF events = << >> THEN << >> ELSE TickSendError)
              /\ UNCHANGED << reconnect_attempts, ws_pc, ws_sink >>
         [] msg.kind = "Text" ->
              /\ ws_events' = ws_events \o process_text_message(msg.text)
              /\ UNCHANGED << reconnect_attempts, ws_pc, ws_sink >>
         [] msg.kind = "Close" ->
              /\ ws_events' = Append(ws_events, Notification("websocket_handler",
                                        "WebSocket connection closed by server"))
              /\ ws_pc' = "lost"
              /\ UNCHANGED << reconnect_attempts, ws_sink >>
         [] msg.kind = "Ping" ->
              /\ \E ok \in BOOLEAN :
                    IF ok
                    THEN /\ ws_sink' = send_pong(ws_sink)
                         /\ ws_events' = ws_events
                    ELSE /\ ws_sink' = ws_sink
                         /\ ws_events' = Append(ws_events,
                                Error("websocket_handler", "Failed to send pong"))
              /\ UNCHANGED << reconnect_attempts, ws_pc >>
         [] msg.kind = "Err" ->
              /\ ConnectionError
              /\ UNCHANGED ws_sink
         [] OTHER ->
              UNCHANGED << ws_events, reconnect_attempts, ws_pc, ws_sink >>
    /\ UNCHANGED << command_queue, consumer_vars, access_token, store_vars,
                    backoff_vars, log_vars, drain_vars, write_guard, event_receiver, pnl_data, subscribed_tokens,
                    api_vars, cmd_vars, is_connected, connects, frames, inbox >>

\* the frame of the example: instrument 256 at 100.0, no volume
ExampleFrame == << 0, 0, 1, 0, 66, 200, 0, 0 >>

\* the messages of an established connection
StreamMessages ==
    { Binary(<< >>), Binary(<< 0, 0, 1, 0, 66, 200, 0 >>), Binary(ExampleFrame) }
    \cup { Text(text) : text \in Texts }
    \cup { Close, Ping, Pong, StreamErr }

NextStream == (\E m \in StreamMessages : ReceiveMessage(m)) \/ HandleMessage

SpecStream == InitRunning /\ [][NextStream]_vars

\* the message in hand is a binary frame shorter than 8 bytes
ShortBinary == msg.kind = "Binary" /\ Len(msg.data) < 8

\* the message in hand is a text frame that is not a JSON status
MalformedText == msg.kind = "Text" /\ ~(from_str(msg.text).ok /\ from_str(msg.text).status.some)

\* the events that handling the message in hand has added
NewEvents == SubSeq(ws_events', Len(ws_events) + 1, Len(ws_events'))

\* C22: a binary frame shorter than 8 bytes produces neither a TickUpdate nor
\* an Error event, a text frame that is not a well-formed status produces no
\* Error and fails nothing, and after either the handler is still streaming
\* with its hands free for the next message
C22_MalformedFramesDropped ==
    [][(msg # NoMsg /\ msg' = NoMsg /\ (ShortBinary \/ MalformedText))
          => /\ ShortBinary => ws_events' = ws_events
             /\ \A i \in 1..Len(NewEvents) :
                   NewEvents[i].type \notin { "TickUpdate", "Error" }
             /\ ws_pc' = "streaming"
             /\ reconnect_attempts' = reconnect_attempts
             /\ is_connected']_vars

\* a short binary frame and then text that is not JSON were handled, and the
\* frame that followed them has been turned into its TickUpdate
C22_Witness ==
    /\ msg = NoMsg
    /\ ws_pc = "streaming"
    /\ Len(inbox) >= 3
    /\ inbox[1].kind = "Binary" /\ Len(inbox[1].data) = 7
    /\ inbox[2] = Text("status ok")
    /\ inbox[3] = Binary(ExampleFrame)
    /\ Len(ws_events) = 6
    /\ ws_events[5] = Notification("websocket_handler", "Received text message")
    /\ ws_events[6].type = "TickUpdate"
    /\ ws_events[6].instrument_token = 256

\* ------------------------------------------------------------------ C32
\* how many elements of the sequence are x
Count(seq, x) == Cardinality({ i \in 1..Len(seq) : seq[i] = x })

PongFailed == Error("websocket_handler", "Failed to send pong")

\* C32: while Streaming every Ping is answered before the next message is
\* taken: handling it sends exactly one Pong or, when that send fails,
\* reports one Error, and either way the handler is still streaming,
\* connected and has counted no reconnection attempt; so the Pings received
\* are as many as the Pongs sent plus the failures reported plus the Ping in
\* hand
C32_PingAnsweredWithPong ==
    /\ [][(msg = Ping /\ msg' # msg) =>
            /\ \/ ws_sink' = Append(ws_sink, [a |-> "pong"]) /\ ws_events' = ws_events
               \/ ws_sink' = ws_sink /\ ws_events' = Append(ws_events, PongFailed)
            /\ ws_pc' = "streaming"
            /\ is_connected'
            /\ reconnect_attempts' = reconnect_attempts]_vars
    /\ [][inbox' # inbox => msg = NoMsg]_vars
    /\ [](Count(inbox, Ping) =
             Count(ws_sink, [a |-> "pong"]) + Count(ws_events, PongFailed)
                + (IF msg = Ping THEN 1 ELSE 0))

\* the Pong of the first Ping could not be sent, which was reported; the
\* second Ping was answered and the frame after it gave its TickUpdate
C32_Witness ==
    /\ inbox = << Ping, Ping, Binary(ExampleFrame) >>
    /\ msg = NoMsg
    /\ ws_pc = "streaming"
    /\ ws_sink = << [a |-> "pong"] >>
    /\ Len(ws_events) = 6
    /\ ws_events[5] = PongFailed
    /\ ws_events[6].type = "TickUpdate"


\* ========================================================= tick decoder
\* u32::to_be_bytes and u64::to_be_bytes: width bytes, the most significant
\* one first
RECURSIVE to_be_bytes(_, _)
to_be_bytes(value, width) ==
    IF width = 0 THEN << >>
    ELSE Append(to_be_bytes(value \div 256, width - 1), value % 256)

\* f32::to_bits of a finite price, as four big-endian bytes
f32_to_be_bytes(price) ==
    LET exponent == IF price.exp2 = -149 /\ price.significand < 8388608
                    THEN 0 ELSE price.exp2 + 150
        fraction == IF exponent = 0 THEN price.significand
                    ELSE price.significand - 8388608
    IN  << price.sign * 128 + exponent \div 2,
           (exponent % 2) * 128 + fraction \div 65536,
           (fraction \div 256) % 256,
           fraction % 256 >>

\* the fixed layout: instrument token, price, volume, 16 bytes in all
EncodeTick(instrument_token, last_price, volume) ==
    to_be_bytes(instrument_token, 4) \o f32_to_be_bytes(last_price)
    \o to_be_bytes(volume, 8)

\* instrument tokens and volumes with a byte in every position TLC's
\* integers can hold
DecodeTokens == { 0, 256, 16909060, 2147483647 }

DecodeVolumes == { 0, 258, 2147483647 }

\* 100.0, -1.5 and 0.0 as f32
DecodePrices ==
    { [class |-> "finite", sign |-> 0, significand |-> 13107200, exp2 |-> -17],
      [class |-> "finite", sign |-> 1, significand |-> 12582912, exp2 |-> -23],
      [class |-> "finite", sign |-> 0, significand |-> 0, exp2 |-> -149] }

\* lengths on both sides of the 8 and 16 byte thresholds
FrameLengths == { 0, 7, 8, 12, 15, 16, 18 }

\* an encoded tick followed by two more bytes
Padded(instrument_token, last_price, volume) ==
    EncodeTick(instrument_token, last_price, volume) \o << 171, 205 >>

\* the binary frames of the model: encoded ticks, cut short or padded
DecodeFrames ==
    { SubSeq(Padded(t, p, v), 1, n) :
        t \in DecodeTokens, p \in DecodePrices, v \in DecodeVolumes,
        n \in FrameLengths }

\* the first message of a connection is one of the frames, and is handled
NextDecode ==
    \/ \E data \in DecodeFrames : inbox = << >> /\ ReceiveMessage(Binary(data))
    \/ HandleMessage

SpecDecode == InitRunning /\ [][NextDecode]_vars

\* the binary frame in hand is handled in this step
HandlesBinary == msg.kind = "Binary" /\ msg' = NoMsg

\* C23: a tick encoded into the big-endian layout is decoded into one
\* TickUpdate with the instrument token and the price that were encoded, and
\* with the volume that was encoded when the frame has its 16 bytes
C23_DecoderRoundTrip ==
    [][\A t \in DecodeTokens, p \in DecodePrices, v \in DecodeVolumes,
          n \in { l \in FrameLengths : l >= 8 } :
          (HandlesBinary /\ msg.data = SubSeq(Padded(t, p, v), 1, n))
             => /\ Len(NewEvents) = 1
                /\ NewEvents[1].type = "TickUpdate"
                /\ NewEvents[1].instrument_token = t
                /\ NewEvents[1].last_price = p
                /\ n >= 16 => NewEvents[1].volume = v]_vars

\* the largest token and volume, encoded into 16 bytes, have come back
C23_Witness ==
    /\ msg = NoMsg
    /\ Len(inbox) = 1
    /\ \E p \in DecodePrices :
          inbox[1] = Binary(EncodeTick(2147483647, p, 2147483647))
    /\ Len(ws_events) = 5
    /\ ws_events[5].type = "TickUpdate"
    /\ ws_events[5].instrument_token = 2147483647
    /\ ws_events[5].volume = 2147483647

\* the value of the four bytes of data that start at from, the most
\* significant one first
BigEndian(data, from) ==
    data[from] * 16777216 + data[from + 1] * 65536 + data[from + 2] * 256
    + data[from + 3]

\* C30: every binary frame of at least 8 bytes yields exactly one
\* TickUpdate, its instrument token the big-endian value of bytes 0..3 and
\* its volume the big-endian value of bytes 8..15 when the frame has at
\* least 16 bytes and 0 when it has 8 to 15; the bytes [0,0,1,0,0x42,0xC8,0,0]
\* yield token 256 and volume 0
C30_OneTickPerFrame ==
    [][(HandlesBinary /\ Len(msg.data) >= 8)
          => /\ Len(NewEvents) = 1
             /\ NewEvents[1].type = "TickUpdate"
             /\ NewEvents[1].instrument_token = BigEndian(msg.data, 1)
             /\ NewEvents[1].volume =
                   IF Len(msg.data) >= 16
                   THEN BigEndian(msg.data, 9) * 65536 * 65536 + BigEndian(msg.data, 13)
                   ELSE 0
             /\ msg.data = ExampleFrame =>
                   /\ NewEvents[1].instrument_token = 256
                   /\ NewEvents[1].volume = 0]_vars

\* the frame of the example has been decoded
C30_Witness ==
    /\ msg = NoMsg
    /\ Len(inbox) = 1
    /\ inbox[1] = Binary(ExampleFrame)
    /\ Len(ws_events) = 5
    /\ ws_events[5].type = "TickUpdate"
    /\ ws_events[5].instrument_token = 256
    /\ ws_events[5].volume = 0


\* ===================================================== the receiver gone
\* eframe drops the TradingApp after on_exit, and with it the AppState and
\* its event_receiver: from then on every EventSender::send fails
DropApp ==
    /\ ~app_running
    /\ event_receiver = "alive"
    /\ event_receiver' = "dropped"
    /\ UNCHANGED << command_queue, consumer_vars, access_token, store_vars,
                    backoff_vars, frame_vars, log_vars, drain_vars, write_guard, pnl_data,
                    subscribed_tokens, api_vars, cmd_vars, ws_vars >>

\* the connection task while the application exits
NextExit == OnExit \/ DropApp \/ WsNext

SpecExit == Init /\ [][NextExit]_vars

\* C24: a send that fails because the receiver is gone changes no control
\* flow: the connection whose WebSocketConnected could not be sent goes on to
\* subscribe with its counter reset, the receive loop goes on after a
\* TickUpdate that could not be sent, and the task whose
\* WebSocketDisconnected could not be sent stops as it does otherwise; none
\* of them counts a reconnection attempt
C24_FailedSendSwallowed ==
    /\ [][(event_receiver = "dropped" /\ ws_pc = "streaming" /\ frames' # frames
             /\ Len(ws_events') > Len(ws_events)
             /\ ws_events'[Len(ws_events) + 1].type = "TickUpdate")
            => ws_pc' = "streaming" /\ reconnect_attempts' = reconnect_attempts]_vars
    /\ [][(event_receiver = "dropped" /\ ws_pc = "connected" /\ ws_pc' # "connected")
            => ws_pc' = "subscribe" /\ reconnect_attempts' = 0]_vars
    /\ [][(event_receiver = "dropped" /\ ws_pc = "lost" /\ ws_pc' # "lost")
            => ws_pc' = "stopped" /\ reconnect_attempts' = reconnect_attempts]_vars


\* ================================================== resuming by command
\* command_processor has handled a ReconnectWebSocket command
ReconnectHandled ==
    \E i \in 1..Len(cmd_events) :
        cmd_events[i] = Notification("websocket_handler",
                                     "Manual reconnection requested")

\* C25: with the reconnect budget exhausted the machine resumes connecting
\* when a ReconnectWebSocket command is handled, and only then: a connection
\* attempt that starts with the counter above max_reconnect_attempts follows
\* a handled ReconnectWebSocket command
C25_ResumeOnlyByCommand ==
    [][(reconnect_attempts > max_reconnect_attempts /\ StartsAttempt)
          => ReconnectHandled]_vars


\* ============================================================== the log
\* the events waiting in the Event channel when the consumer starts to drain
MaxQueued == 2

\* add_log that never trims
add_log_NoDrain(log, entry) == Append(log, entry)

\* AppState::add_log: a log of 10000 entries or more loses its 1000 oldest
\* (logs.drain(0..1000)) before the new entry is pushed
add_log(log, entry) ==
    Append(IF Len(log) >= 10000 THEN SubSeq(log, 1001, Len(log)) ELSE log, entry)

\* AppEvent::Notification with its level
NotificationAt(level, message, module) ==
    [type |-> "Notification", level |-> level, message |-> message,
     module |-> module]

\* handle_event that does not log an Error event
handle_event_log_Silent(e) ==
    CASE e.type = "Notification" ->
            add_log(logs, LogEntry(e.level, e.message, e.module))
      [] OTHER -> logs

\* AppState::handle_event: the log after the event, one entry more for
\* every event but a TickUpdate (format! is the pair of its text and its
\* argument)
handle_event_log(e) ==
    CASE e.type = "PositionsUpdated" ->
            add_log(logs, LogEntry("Info",
                << "Updated positions",
                   Cardinality(Keys(ReplacePositions(positions, e.positions))) >>,
                Some("positions")))
      [] e.type = "OrdersUpdated" ->
            add_log(logs, LogEntry("Info",
                << "Updated orders, total",
                   Cardinality(Keys(UpdateOrders(orders, e.orders))) >>,
                Some("orders")))
      [] e.type = "TickUpdate" -> logs
      [] e.type = "Notification" ->
            add_log(logs, LogEntry(e.level, e.message, e.module))
      [] e.type = "Error" ->
            add_log(logs, LogEntry("Error", e.error, e.module))
      [] OTHER ->
            add_log(logs, LogEntry("Debug", << "Unhandled event", e >>,
                                   Some("state")))

\* AppState::process_events, one turn of its loop, the log included
process_events_log ==
    /\ event_receiver = "alive"
    /\ event_queue # << >>
    /\ event_queue' = Tail(event_queue)
    /\ handle_event(Head(event_queue))
    /\ logs' = handle_event_log(Head(event_queue))
    /\ applied_frame' =
          IF Head(event_queue).type = "TickUpdate"
          THEN [applied_frame EXCEPT
                  ![Head(event_queue).instrument_token] = Head(event_queue).frame]
          ELSE applied_frame
    /\ UNCHANGED << wire, worker_vars, backoff_vars, frame_vars, drain_vars,
                    write_guard, event_receiver, pnl_data >>

\* the sequences of at most n elements of S
Queues(S, n) == UNION { [1..k -> S] : k \in 0..n }

\* every variant of AppEvent
AllEvents ==
    { PositionsUpdatedWith(<< p >>) : p \in { q \in FetchedPositions :
                                               q.instrument_token = 1 } }
    \cup { OrdersUpdatedWith(<< o >>) : o \in { q \in FetchedOrders :
                                                 q.order_id = 1 /\ q.status = "Open" } }
    \cup { TickUpdateWith(1, 105, 1, [secs |-> 1, nsecs |-> 0], 0),
           [type |-> "UserProfileUpdated"], [type |-> "InstrumentsUpdated"],
           WebSocketConnected, WebSocketDisconnected, WebSocketReconnecting(1),
           OrderPlaced(1), [type |-> "OrderModified", order_id |-> 1],
           [type |-> "OrderCancelled", order_id |-> 1],
           [type |-> "OrderFilled", order_id |-> 1],
           NotificationAt("Warning", "Rate limit reached", Some("api_handler")),
           Error(Some("api_handler"), "Failed to fetch positions") }

\* the workers have sent some events and the consumer drains them
InitApply ==
    /\ WorkersRunning
    /\ event_queue \in Queues(AllEvents, MaxQueued)
    /\ InitMaps
    /\ InitFrames
    /\ InitDrain
    /\ requests = << >>
    /\ write_guard = NoGuard
    /\ InitLogs
    /\ event_receiver = "alive"
    /\ InitBackoff

SpecApply == InitApply /\ [][process_events_log]_vars

\* C26: handle_event completes for every variant of AppEvent; Notification
\* and Error append exactly one log entry, the one of the event; and every
\* variant other than PositionsUpdated, OrdersUpdated and TickUpdate leaves
\* the position, order and tick maps and the metrics as they were
C26_ApplyNeverFails ==
    /\ [](event_queue # << >> => ENABLED process_events_log)
    /\ [][(event_queue # << >> /\ event_queue' = Tail(event_queue))
            => LET e == Head(event_queue) IN
               /\ e.type \in { "Notification", "Error" } =>
                     /\ Len(logs') = Len(logs) + 1
                     /\ SubSeq(logs', 1, Len(logs)) = logs
                     /\ logs'[Len(logs')].message =
                           (IF e.type = "Error" THEN e.error ELSE e.message)
                     /\ logs'[Len(logs')].level =
                           (IF e.type = "Error" THEN "Error" ELSE e.level)
               /\ e.type \notin { "PositionsUpdated", "OrdersUpdated", "TickUpdate" } =>
                     UNCHANGED << positions, orders, tick_data,
                                  ticks_processed >>]_vars

\* a position is in the store and the Error event that followed it has left
\* its entry at the end of the log
C26_Witness ==
    /\ event_queue = << >>
    /\ Keys(positions) = { 1 }
    /\ Len(logs) = 3
    /\ logs[3] = LogEntry("Error", "Failed to fetch positions", Some("api_handler"))

\* a log of n entries, told apart by their messages
FilledLog(n) == [i \in 1..n |-> LogEntry("Info", i, Some("app"))]

\* log lengths far from the capacity, just below it and at it
LogLengths == { 0, 1, 999, 1000, 9998, 9999, 10000 }

\* events that are logged at three levels, and one that is not logged
LogEvents ==
    { NotificationAt("Warning", "Rate limit reached", Some("api_handler")),
      Error(Some("api_handler"), "Failed to fetch positions"),
      WebSocketConnected,
      TickUpdateWith(1, 105, 1, [secs |-> 1, nsecs |-> 0], 0) }

\* the log has some length and the consumer drains the events sent
InitLog ==
    /\ WorkersRunning
    /\ event_queue \in Queues(LogEvents, MaxQueued)
    /\ InitMaps
    /\ InitFrames
    /\ InitDrain
    /\ requests = << >>
    /\ write_guard = NoGuard
    /\ logs \in { FilledLog(n) : n \in LogLengths }
    /\ pnl_data = NoPnl
    /\ event_receiver = "alive"
    /\ InitBackoff

SpecLog == InitLog /\ [][process_events_log]_vars

\* C27: the log never holds more than 10000 entries; an append that finds
\* 10000 entries removes the 1000 oldest and then adds the new entry at the
\* end, every other append only adds the new entry at the end, and the
\* entries that stay keep their order
C27_LogBounded ==
    /\ [](Len(logs) <= 10000)
    /\ [][Len(logs') # Len(logs)
            => IF Len(logs) = 10000
               THEN /\ Len(logs') = 9001
                    /\ \A i \in 1..9000 : logs'[i] = logs[i + 1000]
               ELSE /\ Len(logs') = Len(logs) + 1
                    /\ \A i \in 1..Len(logs) : logs'[i] = logs[i]]_vars

\* a full log has lost its 1000 oldest entries and gained the new one
C27_Witness ==
    /\ Len(logs) = 9001
    /\ logs[1].message = 1001
    /\ logs[9000].message = 10000
    /\ logs[9001].level = "Error"


\* ============================================================ total pnl
\* the loop of calculate_total_pnl over the entries that are left, and the
\* PnlData it returns when none is
RECURSIVE SumPositions(_, _, _, _)
SumPositions(map, keys, realized, unrealized) ==
    IF keys = { }
    THEN [realized |-> realized, unrealized |-> unrealized,
          total |-> realized + unrealized, day_pnl |-> unrealized,
          day_realized |-> 0, day_unrealized |-> unrealized]
    ELSE LET k == CHOOSE k \in keys : TRUE
         IN  SumPositions(map, keys \ { k }, realized + map[k].realized_pnl,
                          unrealized + map[k].unrealized_pnl)

\* calculate_total_pnl that sums pnl where it should sum unrealized_pnl
calculate_total_pnl_Pnl(map) ==
    SumPositions([t \in DOMAIN map |->
                    IF map[t] = Absent THEN Absent
                    ELSE [map[t] EXCEPT !.unrealized_pnl = map[t].pnl]],
                 Keys(map), 0, 0)

\* AppState::calculate_total_pnl
calculate_total_pnl(map) == SumPositions(map, Keys(map), 0, 0)

\* the UI asks for the totals: calculate_total_pnl takes &self and returns
\* the PnlData
CalculateTotalPnl ==
    /\ pnl_data' = calculate_total_pnl(positions)
    /\ UNCHANGED << store_vars, worker_vars, backoff_vars, frame_vars,
                    log_vars, drain_vars, write_guard, event_receiver >>

\* the events that change what calculate_total_pnl sums
PnlEvents ==
    { PositionsUpdatedWith(l) : l \in ListsOf(FetchedPositions) }
    \cup { TickUpdateWith(t, 105, 1, [secs |-> 1, nsecs |-> 0], 0) :
             t \in StoreTokens }

NextPnl ==
    \/ \E e \in PnlEvents : SendEvent(e)
    \/ process_events
    \/ CalculateTotalPnl

SpecPnl == InitRunning /\ [][NextPnl]_vars

\* f[1] + ... + f[n]
RECURSIVE SumTo(_, _)
SumTo(f, n) == IF n = 0 THEN 0 ELSE f[n] + SumTo(f, n - 1)

\* the realized and the unrealized pnl of every instrument, 0 where the
\* store has no position
RealizedOf == [t \in StoreTokens |->
                 IF positions[t] = Absent THEN 0 ELSE positions[t].realized_pnl]

UnrealizedOf == [t \in StoreTokens |->
                   IF positions[t] = Absent THEN 0 ELSE positions[t].unrealized_pnl]

\* C28: calculate_total_pnl returns the sum of realized_pnl and the sum of
\* unrealized_pnl over exactly the positions in the store and their sum as
\* total, all 0 for an empty store, and changes nothing in the store
C28_TotalPnl ==
    [][pnl_data' # pnl_data
          => /\ pnl_data'.realized = SumTo(RealizedOf, StoreMaxToken)
             /\ pnl_data'.unrealized = SumTo(UnrealizedOf, StoreMaxToken)
             /\ pnl_data'.total = pnl_data'.realized + pnl_data'.unrealized
             /\ Keys(positions) = { } =>
                   /\ pnl_data'.realized = 0
                   /\ pnl_data'.unrealized = 0
                   /\ pnl_data'.total = 0
             /\ UNCHANGED << positions, orders, tick_data, ticks_processed,
                             event_queue, logs >>]_vars

\* the totals of a store with a holding and a closed position, after a tick
\* has moved the holding's unrealized pnl
C28_Witness ==
    /\ Cardinality(Keys(positions)) = 2
    /\ \E t \in Keys(positions) : positions[t].quantity = 0
    /\ \E t \in Keys(positions) :
          positions[t].quantity # 0 /\ positions[t].last_price # 100
    /\ pnl_data # NoPnl
    /\ pnl_data.realized = -1
    /\ pnl_data.unrealized = SumTo(UnrealizedOf, StoreMaxToken)
    /\ pnl_data.unrealized # 100


\* ================================================= reconnection attempts
\* connect_and_process has returned Err to run in this step
AttemptFails ==
    /\ Len(NewEvents) >= 1
    /\ \E i \in 1..Len(NewEvents) :
          NewEvents[i] = Error("websocket_handler", "WebSocket connection error")

\* the index of the last WebSocketReconnecting or WebSocketConnected event
\* before position j of run's events, 0 if there is none
LastAttemptEvent(j) ==
    LET before == { i \in 1..(j - 1) :
                      ws_events[i].type \in { "WebSocketReconnecting",
                                              "WebSocketConnected" } }
    IN  IF before = { } THEN 0 ELSE CHOOSE i \in before : \A k \in before : k <= i

MaxProduced == 3

\* a refresh of the positions, the ticks of every instrument, a refresh of
\* the orders and a report of a failure
DrainEvents ==
    { PositionsUpdatedWith(<< p >>) : p \in { q \in FetchedPositions :
                                               q.quantity = 10 } }
    \cup { TickUpdateWith(t, p.last_price, p.volume, p.timestamp, 0) :
             t \in StoreTokens, p \in TickPayloads }
    \cup { OrdersUpdatedWith(<< [order_id |-> 1, status |-> "Open"] >>),
           Error(Some("api_handler"), "Failed to fetch positions") }

\* EventSender::send by a worker, at any time: the event is appended to the
\* unbounded Event channel
Produce(e) ==
    /\ event_receiver = "alive"
    /\ Len(produced) < MaxProduced
    /\ event_queue' = Append(event_queue, e)
    /\ produced' = Append(produced, e)
    /\ UNCHANGED << positions, orders, tick_data, ticks_processed, wire,
                    applied_frame, worker_vars, backoff_vars, frame_vars,
                    log_vars, ui_pc, applied, write_guard, event_receiver,
                    pnl_data >>

\* TradingApp::update is called for the next frame and calls process_events
Update ==
    /\ ui_pc = "render"
    /\ ui_pc' = "process_events"
    /\ UNCHANGED << store_vars, worker_vars, backoff_vars, frame_vars, log_vars,
                    applied, produced, write_guard, event_receiver, pnl_data >>

\* process_events that takes the newest event of the channel first
TryRecv_Newest ==
    /\ ui_pc = "process_events"
    /\ IF event_queue = << >>
       THEN /\ ui_pc' = "render"
            /\ UNCHANGED << store_vars, logs, applied >>
       ELSE LET event == event_queue[Len(event_queue)] IN
            /\ event_queue' = SubSeq(event_queue, 1, Len(event_queue) - 1)
            /\ handle_event(event)
            /\ logs' = handle_event_log(event)
            /\ applied' = Append(applied, event)
            /\ UNCHANGED << ui_pc, wire, applied_frame >>
    /\ UNCHANGED << produced, worker_vars, backoff_vars, frame_vars, write_guard,
                    event_receiver, pnl_data >>

\* one turn of `while let Ok(event) = self.event_receiver.try_recv()` in
\* process_events: try_recv returns at once, with the oldest event of the
\* channel, which handle_event applies, or with Err(Empty), which ends the
\* loop and lets update go on to render
TryRecv ==
    /\ ui_pc = "process_events"
    /\ IF event_queue = << >>
       THEN /\ ui_pc' = "render"
            /\ UNCHANGED << store_vars, logs, applied >>
       ELSE LET event == Head(event_queue) IN
            /\ event_queue' = Tail(event_queue)
            /\ handle_event(event)
            /\ logs' = handle_event_log(event)
            /\ applied' = Append(applied, event)
            /\ UNCHANGED << ui_pc, wire, applied_frame >>
    /\ UNCHANGED << produced, worker_vars, backoff_vars, frame_vars, write_guard,
                    event_receiver, pnl_data >>

NextDrain == (\E e \in DrainEvents : Produce(e)) \/ Update \/ TryRecv

\* the UI thread runs: a process_events that can take its next turn takes it
SpecDrain == InitRunning /\ [][NextDrain]_vars /\ WF_vars(TryRecv)

\* C31: process_events never blocks (in the loop its next turn is always
\* possible); it applies one event per turn, the oldest of the channel, and
\* returns only on finding the channel empty; every event sent is applied at
\* most once and none is skipped (the events applied followed by the events
\* waiting are the events sent); and once the producers have sent their last
\* event a running process_events returns with the channel empty and every
\* event sent applied
C31_ProcessEventsDrains ==
    /\ [](applied \o event_queue = produced)
    /\ [](ui_pc = "process_events" => ENABLED TryRecv)
    /\ [][applied' # applied =>
            /\ ui_pc = "process_events"
            /\ event_queue # << >>
            /\ applied' = Append(applied, Head(event_queue))
            /\ event_queue' = Tail(event_queue)]_vars
    /\ [][(ui_pc = "process_events" /\ ui_pc' = "render") =>
            /\ event_queue = << >>
            /\ UNCHANGED << applied, positions, orders, tick_data,
                            ticks_processed, logs >>]_vars
    /\ ((Len(produced) = MaxProduced /\ ui_pc = "process_events")
          ~> (ui_pc = "render" /\ event_queue = << >> /\ applied = produced))

\* three events were sent while process_events ran, the last two of them
\* after it had applied the first; it has applied all three in the order
\* sent and has returned
C31_Witness ==
    /\ ui_pc = "render"
    /\ Len(produced) = 3
    /\ applied = produced
    /\ event_queue = << >>
    /\ produced[1].type = "PositionsUpdated"
    /\ produced[2].type = "TickUpdate"
    /\ produced[3].type = "Error"
    /\ Len(logs) = 3
    /\ ticks_processed = 1


\* ------------------------------------------------------------- C39, C40
\* the turn of process_events that applies the TickUpdate at the head of
\* the Event channel
AppliesTick ==
    /\ applied' # applied
    /\ Head(event_queue).type = "TickUpdate"

\* C39: applying TickUpdate{id} changes at most the Position with key id,
\* the Live Tick entry with key id and the metrics: the positions and the
\* Live Tick entries of every other instrument, all orders and the log stay
\* as they were, and when no Position has key id the positions stay as they
\* were, with no position created
C39_TickTouchesOnlyItsInstrument ==
    [][AppliesTick =>
          LET id == Head(event_queue).instrument_token
          IN  /\ \A t \in StoreTokens \ { id } :
                    /\ positions'[t] = positions[t]
                    /\ tick_data'[t] = tick_data[t]
              /\ orders' = orders
              /\ logs' = logs
              /\ positions[id] = Absent => positions' = positions
              /\ Keys(positions') = Keys(positions)
              /\ ticks_processed' = ticks_processed + 1]_vars

\* instrument 1 has a position and instrument 2 has none; a tick of
\* instrument 2 was applied after the refresh and a tick of instrument 1
\* after that: the position of instrument 1 is repriced once, the store has
\* got no position for instrument 2, and only the refresh is in the log
C39_Witness ==
    /\ Len(applied) = 3
    /\ applied[1].type = "PositionsUpdated"
    /\ applied[2].type = "TickUpdate" /\ applied[2].instrument_token = 2
    /\ applied[3].type = "TickUpdate" /\ applied[3].instrument_token = 1
    /\ Keys(positions) = { 1 }
    /\ positions[1].last_price = applied[3].last_price
    /\ tick_data[1] # Absent /\ tick_data[2] # Absent
    /\ Len(logs) = 2

\* the first TickUpdate applied for instrument t, if there is one
FirstTick(t) ==
    LET at == { i \in 1..Len(applied) :
                  applied[i].type = "TickUpdate" /\ applied[i].instrument_token = t }
    IN  applied[CHOOSE i \in at : \A j \in at : i <= j]

\* C40: a TickUpdate that finds a Live Tick entry changes only its
\* last_price, volume and timestamp; so, after any number of ticks, the
\* entry's open, high, low, close and average_price are the price of the
\* instrument's first tick and its last_quantity, buy_quantity and
\* sell_quantity are 0 as that tick set them
C40_LaterTicksKeepFirstOhlc ==
    /\ [][(AppliesTick /\ tick_data[Head(event_queue).instrument_token] # Absent) =>
            LET id == Head(event_queue).instrument_token
            IN  tick_data'[id] =
                   [tick_data[id] EXCEPT
                       !.last_price = tick_data'[id].last_price,
                       !.volume = tick_data'[id].volume,
                       !.timestamp_nanos = tick_data'[id].timestamp_nanos]]_vars
    /\ [](\A t \in Keys(tick_data) :
             LET first == FirstTick(t).last_price
             IN  /\ tick_data[t].ohlc = [open |-> first, high |-> first,
                                         low |-> first, close |-> first]
                 /\ tick_data[t].average_price = first
                 /\ tick_data[t].last_quantity = 0
                 /\ tick_data[t].buy_quantity = 0
                 /\ tick_data[t].sell_quantity = 0)

\* three ticks of instrument 1 at 105, 110 and 110: the entry shows the
\* last price while its high and its close are still the first price
C40_Witness ==
    /\ Len(applied) = 3
    /\ \A i \in 1..3 : applied[i].type = "TickUpdate" /\ applied[i].instrument_token = 1
    /\ applied[1].last_price = 105
    /\ applied[2].last_price = 110
    /\ tick_data[1].last_price = 110
    /\ tick_data[1].ohlc.high = 105
    /\ tick_data[1].ohlc.close = 105
    /\ tick_data[1].average_price = 105


\* ===================================================== command handling
\* the commands the consumer sends in one run
MaxIssued == 3

\* a command of every tag the two loops tell apart
IssuedCommands ==
    { FetchPositions, FetchOrders, PlaceOrder, ModifyOrder(1), CancelOrder(1),
      ReconnectWebSocket, SubscribeToTicks(<< 1 >>),
      UnsubscribeFromTicks(<< 1 >>) }

\* AppState::send_command, at any time: the command is appended to the
\* unbounded Command channel
IssueCommand(c) ==
    /\ app_running
    /\ sent < MaxIssued
    /\ sent' = sent + 1
    /\ reconnect_sent' = (reconnect_sent \/ c = ReconnectWebSocket)
    /\ command_queue' = Append(command_queue, c)
    /\ UNCHANGED << app_running, access_token, store_vars, backoff_vars,
                    frame_vars, log_vars, drain_vars, write_guard, event_receiver,
                    pnl_data, subscribed_tokens, api_vars, cmd_vars, ws_vars >>

\* the two command loops and the consumer, the connection streaming
NextCommands ==
    \/ \E c \in IssuedCommands : IssueCommand(c)
    \/ OnExit
    \/ ApiRecv \/ ApiHandle \/ CmdRecv \/ CmdHandle

SpecCommands == InitRunning /\ [][NextCommands]_vars

\* the tags handle_command acts on, and the tags command_processor acts on
ApiTags == { "FetchPositions", "FetchOrders", "FetchUserProfile",
             "FetchInstruments", "PlaceOrder", "ModifyOrder", "CancelOrder" }

WsTags == { "SubscribeToTicks", "UnsubscribeFromTicks", "ReconnectWebSocket" }

\* what recv() hands to the loop for the head of the channel
Taken == IF Head(command_queue) = Shutdown THEN NoCmd ELSE Head(command_queue)

\* the events ApiHandler has sent in this step
NewApiEvents == SubSeq(api_events', Len(api_events) + 1, Len(api_events'))

\* C33: the Command channel is first in, first out (a send appends, a take
\* removes the oldest command and hands it to a loop that is waiting in
\* recv()), and each loop holds one command until it has handled it and is
\* back at recv(): so each worker handles the commands it receives one at a
\* time in the order sent. The Request Worker sends events only while it
\* handles the command in hand, so all of them before it takes the next; a
\* command of its own always yields its result event or an Error event, and
\* after either the loop waits for the next command
C33_CommandsInOrder ==
    /\ [][command_queue' # command_queue =>
            \/ \E c \in IssuedCommands \cup { Shutdown } :
                  command_queue' = Append(command_queue, c)
            \/ /\ command_queue # << >>
               /\ command_queue' = Tail(command_queue)
               /\ \/ api_pc = "recv" /\ api_cur' = Taken /\ UNCHANGED cmd_vars
                  \/ cmd_pc = "recv" /\ cmd_cur' = Taken /\ UNCHANGED api_vars]_vars
    /\ [][api_cur # NoCmd => api_cur' \in { api_cur, NoCmd }]_vars
    /\ [][cmd_cur # NoCmd => cmd_cur' \in { cmd_cur, NoCmd }]_vars
    /\ [][api_events' # api_events =>
            \/ api_pc = "handle" /\ api_pc' = "recv"
            \/ api_pc = "recv" /\ api_pc' = "stopped"]_vars
    /\ [][(api_pc = "handle" /\ api_pc' # "handle") =>
            /\ api_pc' = "recv"
            /\ api_cur' = NoCmd
            /\ api_cur.tag \in ApiTags =>
                  \E i \in 1..Len(NewApiEvents) :
                     NewApiEvents[i].type \in
                        { "Error", "PositionsUpdated", "OrdersUpdated",
                          "OrderPlaced", "OrderModified", "OrderCancelled" }]_vars

\* the Request Worker has handled three commands: a FetchPositions that
\* failed, a PlaceOrder whose order refresh failed and a FetchPositions that
\* succeeded, and waits for the next
C33_Witness ==
    /\ api_pc = "recv"
    /\ sent = 3
    /\ command_queue = << >>
    /\ requests = << "get_positions", "place_order", "get_orders", "get_positions" >>
    /\ Len(api_events) = 8
    /\ api_events[2] = Error("api_handler", "Failed to fetch positions")
    /\ api_events[4] = OrderPlaced(1)
    /\ api_events[6] = Error("api_handler", "Failed to fetch orders")
    /\ api_events[7] = PositionsUpdated

\* C34: a command whose tag belongs to the other worker is ignored by the
\* loop that took it: command_processor leaves the Subscription Set as it
\* was and sends no event for a command of the Request Worker, and
\* ApiHandler sends no event and makes no REST call for SubscribeToTicks,
\* UnsubscribeFromTicks and ReconnectWebSocket; both go back to recv()
C34_ForeignCommandsIgnored ==
    /\ [][(cmd_pc = "handle" /\ cmd_pc' # "handle" /\ cmd_cur.tag \in ApiTags) =>
            /\ UNCHANGED << subscribed_tokens, cmd_events >>
            /\ cmd_pc' = "recv"]_vars
    /\ [][(api_pc = "handle" /\ api_pc' # "handle" /\ api_cur.tag \in WsTags) =>
            /\ UNCHANGED << api_events, requests >>
            /\ api_pc' = "recv"]_vars

\* two commands have gone without a trace (no event, no REST call, an empty
\* Subscription Set) and the Request Worker holds a SubscribeToTicks, while
\* command_processor, which took a PlaceOrder before, waits
C34_Witness ==
    /\ sent = 3
    /\ command_queue = << >>
    /\ api_pc = "handle"
    /\ api_cur = SubscribeToTicks(<< 1 >>)
    /\ cmd_pc = "recv"
    /\ cmd_events = << >>
    /\ Len(api_events) = 1
    /\ requests = << >>
    /\ subscribed_tokens = << >>


\* ============================================ the Subscription Set's lock
\* Subscribe and Unsubscribe commands that name two tokens or one
LockCommands ==
    { SubscribeToTicks(<< 1, 2 >>), SubscribeToTicks(<< 2 >>),
      UnsubscribeFromTicks(<< 1, 2 >>), UnsubscribeFromTicks(<< 1 >>) }

\* command_processor waits in recv() and run is in its first handshake
InitLock ==
    /\ app_running = TRUE
    /\ command_queue = << >>
    /\ sent = 0
    /\ reconnect_sent = FALSE
    /\ ws_events = << Notification("websocket_handler", "WebSocket handler started"),
                      Notification("websocket_handler",
                                   "Connecting to Zerodha WebSocket...") >>
    /\ cmd_events = << >>
    /\ api_events = << Notification("api_handler", "API handler started") >>
    /\ access_token = Some("a1b2c3d4e5f6g7h8i9j0k1l2m3n4o5p6")
    /\ subscribed_tokens = << >>
    /\ is_connected = FALSE
    /\ reconnect_attempts = 0
    /\ ws_pc = "handshake"
    /\ ws_sink = << >>
    /\ cmd_pc = "recv"
    /\ cmd_cur = NoCmd
    /\ api_pc = "recv"
    /\ api_cur = NoCmd
    /\ connects = 1
    /\ frames = 0
    /\ InitStore
    /\ InitFrames
    /\ InitDrain
    /\ requests = << >>
    /\ write_guard = NoGuard
    /\ InitLogs
    /\ event_receiver = "alive"
    /\ InitBackoff

\* what the steps of handle_subscribe and handle_unsubscribe leave alone
LockFrame ==
    UNCHANGED << command_queue, consumer_vars, access_token, store_vars,
                 backoff_vars, frame_vars, log_vars, drain_vars, event_receiver,
                 pnl_data, api_vars, ws_vars >>

\* handle_subscribe and handle_unsubscribe up to their write guard:
\* self.subscribed_tokens.write().await returns when no other guard is held
\* (before: history, the Subscription Set as the guard found it)
WriteLock ==
    /\ cmd_pc = "handle"
    /\ cmd_cur.tag \in { "SubscribeToTicks", "UnsubscribeFromTicks" }
    /\ write_guard = NoGuard
    /\ write_guard' = [held |-> TRUE, before |-> subscribed_tokens,
                       rest |-> cmd_cur.instrument_tokens]
    /\ cmd_pc' = "locked"
    /\ UNCHANGED << subscribed_tokens, cmd_cur, cmd_events >>
    /\ LockFrame

\* one turn of handle_subscribe's loop: the next token is pushed unless the
\* vector contains it
PushToken ==
    /\ cmd_pc = "locked"
    /\ cmd_cur.tag = "SubscribeToTicks"
    /\ write_guard.rest # << >>
    /\ LET token == Head(write_guard.rest) IN
       subscribed_tokens' = IF Contains(subscribed_tokens, token)
                            THEN subscribed_tokens
                            ELSE Append(subscribed_tokens, token)
    /\ write_guard' = [write_guard EXCEPT !.rest = Tail(@)]
    /\ UNCHANGED << cmd_pc, cmd_cur, cmd_events >>
    /\ LockFrame

\* handle_unsubscribe's tokens.retain(...)
RetainTokens ==
    /\ cmd_pc = "locked"
    /\ cmd_cur.tag = "UnsubscribeFromTicks"
    /\ write_guard.rest # << >>
    /\ subscribed_tokens' = Retain(subscribed_tokens, cmd_cur.instrument_tokens)
    /\ write_guard' = [write_guard EXCEPT !.rest = << >>]
    /\ UNCHANGED << cmd_pc, cmd_cur, cmd_events >>
    /\ LockFrame

\* the end of handle_subscribe and handle_unsubscribe: the notification,
\* then the guard is dropped and command_processor is back at recv()
Unlock ==
    /\ cmd_pc = "locked"
    /\ write_guard.rest = << >>
    /\ cmd_events' = Append(cmd_events,
                        Notification("websocket_handler",
                            IF cmd_cur.tag = "SubscribeToTicks"
                            THEN "Subscribed to tokens"
                            ELSE "Unsubscribed from tokens"))
    /\ write_guard' = NoGuard
    /\ cmd_pc' = "recv"
    /\ cmd_cur' = NoCmd
    /\ UNCHANGED subscribed_tokens
    /\ LockFrame

\* the command task, one step per access to the vector, while the
\* connection task connects and takes its snapshot
NextLock ==
    \/ \E c \in LockCommands : IssueCommand(c)
    \/ CmdRecv \/ WriteLock \/ PushToken \/ RetainTokens \/ Unlock
    \/ WsHandshake \/ WsConnected \/ WsSubscribe

SpecLock == InitLock /\ [][NextLock]_vars

\* the Subscription Set before and after the command that holds the write
\* guard, or the set itself when no command does
Committed ==
    IF write_guard = NoGuard THEN { subscribed_tokens }
    ELSE { write_guard.before,
           IF cmd_cur.tag = "SubscribeToTicks"
           THEN PushNew(write_guard.before, cmd_cur.instrument_tokens)
           ELSE Retain(write_guard.before, cmd_cur.instrument_tokens) }

\* C35: the snapshot of the Subscription Set taken after the handshake (the
\* tokens of the subscribe message sent, none when no message is sent) is
\* the set as it was before the command being handled at that moment or as
\* it is after that command, never a part of the command's ids
C35_SnapshotAtomic ==
    [][(ws_pc = "subscribe" /\ ws_pc' = "streaming") =>
          (IF ws_sink' # ws_sink THEN ws_sink'[Len(ws_sink')].v ELSE << >>)
              \in Committed]_vars

\* the connection task has connected and waits for the read guard while
\* handle_subscribe, holding the write guard, has pushed the first of its
\* two tokens
C35_Witness ==
    /\ ws_pc = "subscribe"
    /\ cmd_pc = "locked"
    /\ cmd_cur = SubscribeToTicks(<< 1, 2 >>)
    /\ write_guard # NoGuard
    /\ write_guard.before = << >>
    /\ write_guard.rest = << 2 >>
    /\ subscribed_tokens = << 1 >>


\* ==================================================== C36, C37, C38
\* C36: the shared is_connected flag is true exactly while the connection
\* task is in Streaming, from the successful handshake until the receive
\* loop is left: it is true in the subscription step and in the receive
\* loop, and false before the first attempt, in the poll sleep, at the top
\* of run's loop, in the pre-check and the handshake, in the backoff sleep
\* and when run has stopped
C36_ConnectedFlagIffStreaming ==
    /\ ws_pc \in { "subscribe", "streaming" } => is_connected
    /\ ws_pc \in { "start", "sleep", "loop", "precheck", "handshake",
                   "backoff", "stopped" } => ~is_connected

\* C37: in every state the reconnect-attempt counter is at most
\* max_reconnect_attempts + 1
C37_AttemptsBounded ==
    reconnect_attempts <= max_reconnect_attempts + 1

\* C38: whenever handle_reconnection has computed its delay, the range
\* 0..delay/4 of the jitter is not empty (delay / 4 >= 1) and the task has
\* not ended in the jitter's draw: it reaches its sleep
C38_JitterRangeNonEmpty ==
    ws_pc \in { "backoff", "panicked", "loop" } =>
        (delay \div 4 >= 1 /\ ws_pc # "panicked")

====
